---- MODULE Spec2Model ----
(***************************************************************************)
(* A model of the observation-to-overlay annotation engine of              *)
(* scripts/qwen_description.py (class QwenDescriber) and of its Chinese    *)
(* sibling scripts/qwen_description_chinese.py.                            *)
(*                                                                         *)
(* Text.  A Python str is a sequence of characters; a character is a       *)
(* one-element name: an ASCII character is the string holding it, a CJK    *)
(* character is named by its code point ("U5426" is U+5426).               *)
(* A point is the Python list [description, status]: a sequence of two     *)
(* texts, point[1] the description and point[2] the status.                *)
(***************************************************************************)
EXTENDS Integers, Sequences, FiniteSets, TLC

VARIABLES
    module,        \* which class runs: "qwen_description" or "qwen_description_chinese"
    pc,            \* position of the run inside the handler being modelled
    response,      \* self.describer.response: the raw observation text
    filtered,      \* the text handed to extract_points
    points,        \* the record list handed to _annotate_image
    language,      \* self.language: "english" or "chinese"
    detections,    \* what the detector answered for the image of the last call
    enriched,      \* the record list after enrichment, before the sort
    unique_labels, \* self.unique_labels
    text_alignment,                \* self.text_alignment: "left" or "right"
    img_width,                     \* width of the canvas
    idx,                           \* how many points the annotation loop has placed
    current_x_position,            \* None, or the x of the next box
    current_y_position,
    description_only_column_count,
    row_max_height,
    boxes,                         \* the blocks placed so far, in placement order
    canonical,                     \* a status token as the prompt asks for it
    token,                         \* the status token of a record
    verdict,                       \* what the sort key and the loop's tests say of it
    description,                   \* wrap_text_lines: its arguments ...
    suggestion,
    max_chars,
    wrapped,                       \* ... and the list it returns
    calls,                         \* what the suggestion call did, record by record
    rendered,                      \* the wrapped_lines of the records drawn so far
    caller,                        \* the script whose main() runs the loop
    attempted,                     \* how many images the loop has taken up
    processed_count,
    failed_count,
    processed_urls,                \* the images added to the processed set
    posts,                         \* the POSTs attempted, in order
    failure,                       \* the model call that failed in the last image
    ai_text,                       \* self.ai_text: the image whose text it holds
    image_path,                    \* _annotate_image: the path of the input image
    output_path,                   \* the output path the caller gave, or None
    now,                           \* the date partition of datetime.now()
    written_path,                  \* where img.save wrote
    return_path,                   \* what _annotate_image returned
    text_boxes,                    \* annotate_image.py: the boxes to draw
    auto_layout,
    current_y,                     \* the y of the next auto-positioned box
    panels,                        \* the background rectangles drawn, in order
    trace,                         \* the stages, or the requests, of a call, in order
    all_items,                     \* main(): the picUrl of each fetched row
    loaded_urls,                   \* the processed set as load_processed_list gave it
    invoked,                       \* the URLs process_and_annotate was called on
    running,                       \* ClockOutReader: self.running
    thread,                        \* self.thread: the thread started last, or None
    threads,                       \* where each _monitor_loop thread is
    auto_extract_credentials,      \* whether credentials were given
    token_expired,                 \* self.token_expired
    depth,                         \* how many get_clockout_list frames are open
    extractions,                   \* how often _auto_extract_tokens ran
    result                         \* what the outermost get_clockout_list gave

parseVars  == <<module, pc, response, filtered, points>>
engineVars == <<language, detections, enriched, unique_labels>>
layoutVars == <<text_alignment, img_width, idx, current_x_position, current_y_position,
                description_only_column_count, row_max_height, boxes>>
tokenVars  == <<canonical, token, verdict>>
wrapVars   == <<description, suggestion, max_chars, wrapped>>
suggestVars == <<calls, rendered>>
mainVars   == <<caller, attempted, processed_count, failed_count, processed_urls, posts,
                failure, ai_text>>
pathVars   == <<image_path, output_path, now, written_path, return_path>>
annotVars  == <<text_boxes, auto_layout, current_y, panels>>
traceVars  == <<trace>>
loopVars   == <<all_items, loaded_urls, invoked>>
monVars    == <<running, thread, threads>>
retryVars  == <<auto_extract_credentials, token_expired, depth, extractions, result>>
extraVars  == <<annotVars, traceVars, loopVars, monVars, retryVars>>
restVars   == <<suggestVars, mainVars, pathVars, extraVars>>
vars == <<parseVars, engineVars, layoutVars, tokenVars, wrapVars, restVars>>

---------------------------------------------------------------------------
(* Python str helpers *)

NoToken  == <<"n", "o">>
YesToken == <<"y", "e", "s">>
FouToken == <<"U5426">>        \* the Chinese "no"
ShiToken == <<"U662F">>        \* the Chinese "yes"

\* "沒有可見的門"
DoorPhrase == <<"U6C92", "U6709", "U53EF", "U898B", "U7684", "U9580">>

IsSpace(c) == c \in {" ", "\t", "\n", "\r"}

RECURSIVE LStrip(_)
LStrip(s) ==
    IF s = <<>> THEN s
    ELSE IF IsSpace(Head(s)) THEN LStrip(Tail(s)) ELSE s

RECURSIVE RStrip(_)
RStrip(s) ==
    IF s = <<>> THEN s
    ELSE IF IsSpace(s[Len(s)]) THEN RStrip(SubSeq(s, 1, Len(s) - 1)) ELSE s

Strip(s) == RStrip(LStrip(s))

\* str.split(sep) for a one-character separator: always at least one part
RECURSIVE SplitOn(_, _)
SplitOn(s, sep) ==
    IF \A i \in 1..Len(s) : s[i] # sep THEN <<s>>
    ELSE LET i == CHOOSE k \in 1..Len(s) :
                      s[k] = sep /\ \A j \in 1..(k - 1) : s[j] # sep
         IN  <<SubSeq(s, 1, i - 1)>> \o SplitOn(SubSeq(s, i + 1, Len(s)), sep)

\* str.splitlines(), for the line boundaries "\n", "\r" and "\r\n"
RECURSIVE SplitLines(_)
SplitLines(s) ==
    IF s = <<>> THEN <<>>
    ELSE IF \A i \in 1..Len(s) : s[i] \notin {"\n", "\r"} THEN <<s>>
    ELSE LET i == CHOOSE k \in 1..Len(s) :
                      s[k] \in {"\n", "\r"} /\ \A j \in 1..(k - 1) : s[j] \notin {"\n", "\r"}
             n == IF s[i] = "\r" /\ i < Len(s) /\ s[i + 1] = "\n" THEN 2 ELSE 1
         IN  <<SubSeq(s, 1, i - 1)>> \o SplitLines(SubSeq(s, i + n, Len(s)))

\* "sub in s"
Contains(s, sub) ==
    \E i \in 0..(Len(s) - Len(sub)) : SubSeq(s, i + 1, i + Len(sub)) = sub

\* "sep".join(parts)
RECURSIVE Join(_, _)
Join(parts, sep) ==
    IF parts = <<>> THEN <<>>
    ELSE IF Len(parts) = 1 THEN parts[1]
    ELSE parts[1] \o sep \o Join(Tail(parts), sep)

\* concatenation of a sequence of texts
RECURSIVE Concat(_)
Concat(ss) == IF ss = <<>> THEN <<>> ELSE Head(ss) \o Concat(Tail(ss))

\* all sequences over S of length at most n
SeqUpTo(S, n) == UNION {[1..k -> S] : k \in 0..n}

---------------------------------------------------------------------------
(* ResponseParser *)

\* a faulty variant: a line without a comma is skipped instead of kept
ExtractPointsDropsNoComma(text) ==
    LET raw_lines == SplitOn(text, "\n")
        F[i \in 0..Len(raw_lines)] ==
            IF i = 0 THEN <<>>
            ELSE LET line  == Strip(raw_lines[i])
                     parts == SplitOn(line, ",")
                 IN  IF line # <<>> /\ Len(parts) >= 2
                     THEN Append(F[i - 1], <<Strip(parts[1]), Strip(parts[2])>>)
                     ELSE F[i - 1]
    IN  F[Len(raw_lines)]

\* QwenDescriber.extract_points
ExtractPoints(text) ==
    LET raw_lines == SplitOn(text, "\n")
        F[i \in 0..Len(raw_lines)] ==
            IF i = 0 THEN <<>>
            ELSE LET line  == Strip(raw_lines[i])
                     parts == SplitOn(line, ",")
                 IN  IF line # <<>>
                     THEN IF Len(parts) >= 2
                          THEN Append(F[i - 1], <<Strip(parts[1]), Strip(parts[2])>>)
                          ELSE Append(F[i - 1], <<line, NoToken>>)
                     ELSE F[i - 1]
    IN  F[Len(raw_lines)]

\* QwenDescriber._filter_security_response (qwen_description_chinese.py):
\* the stripped non-empty lines, minus those that hold DoorPhrase
FilterSecurityResponse(response_str) ==
    IF response_str = <<>> THEN <<>>
    ELSE LET all_lines == SplitLines(response_str)
             raw_lines == SelectSeq([i \in 1..Len(all_lines) |-> Strip(all_lines[i])],
                                    LAMBDA l : l # <<>>)
             out_lines == SelectSeq(raw_lines, LAMBDA l : ~Contains(l, DoorPhrase))
         IN  Join(out_lines, <<"\n">>)

Modules == {"qwen_description", "qwen_description_chinese"}

---------------------------------------------------------------------------
(* ParseSpec: the parsing stage of process_and_annotate, on every raw text *)
(* made of at most MaxPieces pieces                                        *)

MaxPieces == 5
Pieces == {<<"a">>, <<",">>, <<" ">>, <<"\n">>, <<"\r">>, DoorPhrase}
RawTexts == {Concat(ps) : ps \in SeqUpTo(Pieces, MaxPieces)}

EngineIdle ==
    /\ language = "english"
    /\ detections = <<>>
    /\ enriched = <<>>
    /\ unique_labels = {}

\* Python's None is the empty tuple, a number v the tuple <<v>>
None == <<>>
Some(v) == <<v>>

LayoutIdle ==
    /\ text_alignment = "left"
    /\ img_width = 0
    /\ idx = 0
    /\ current_x_position = None
    /\ current_y_position = 0
    /\ description_only_column_count = 0
    /\ row_max_height = 0
    /\ boxes = <<>>

TokenIdle ==
    /\ canonical = <<>>
    /\ token = <<>>
    /\ verdict = <<>>

WrapIdle ==
    /\ description = <<>>
    /\ suggestion = <<>>
    /\ max_chars = 0
    /\ wrapped = <<>>

SuggestIdle ==
    /\ calls = <<>>
    /\ rendered = <<>>

MainIdle ==
    /\ caller = "image_description"
    /\ attempted = 0
    /\ processed_count = 0
    /\ failed_count = 0
    /\ processed_urls = {}
    /\ posts = <<>>
    /\ failure = "none"
    /\ ai_text = 0

PathIdle ==
    /\ image_path = <<>>
    /\ output_path = None
    /\ now = <<>>
    /\ written_path = <<>>
    /\ return_path = <<>>

AnnotIdle ==
    /\ text_boxes = <<>>
    /\ auto_layout = TRUE
    /\ current_y = 60
    /\ panels = <<>>

TraceIdle == trace = <<>>

LoopIdle ==
    /\ all_items = <<>>
    /\ loaded_urls = {}
    /\ invoked = <<>>

MonIdle ==
    /\ running = FALSE
    /\ thread = None
    /\ threads = <<>>

RetryIdle ==
    /\ auto_extract_credentials = FALSE
    /\ token_expired = FALSE
    /\ depth = 0
    /\ extractions = 0
    /\ result = None

ExtraIdle == AnnotIdle /\ TraceIdle /\ LoopIdle /\ MonIdle /\ RetryIdle

RestIdle == SuggestIdle /\ MainIdle /\ PathIdle /\ ExtraIdle

ParseInit ==
    /\ WrapIdle
    /\ RestIdle
    /\ EngineIdle
    /\ LayoutIdle
    /\ TokenIdle
    /\ module \in Modules
    /\ pc = "start"
    /\ response \in RawTexts
    /\ filtered = <<>>
    /\ points = <<>>

\* process_and_annotate up to the record list: qwen_description.py parses the
\* raw response; qwen_description_chinese.py filters it first
ParseResponse ==
    /\ pc = "start"
    /\ filtered' = IF module = "qwen_description_chinese"
                   THEN FilterSecurityResponse(response)
                   ELSE response
    /\ points' = ExtractPoints(filtered')
    /\ pc' = "parsed"
    /\ UNCHANGED <<module, response, engineVars, layoutVars, tokenVars, wrapVars, restVars>>

ParseNext == ParseResponse

ParseSpec == ParseInit /\ [][ParseNext]_vars

\* the lines (of a list of lines) that are non-empty after trimming
NonEmpty(ls) == {i \in 1..Len(ls) : \E j \in 1..Len(ls[i]) : ~IsSpace(ls[i][j])}

\* the non-empty lines that hold the door phrase
DoorLines(ls) == {i \in NonEmpty(ls) : Contains(ls[i], DoorPhrase)}

\* the lines of the raw text, as the class that reads it cuts them
RawLines == IF module = "qwen_description_chinese"
            THEN SplitLines(response) ELSE SplitOn(response, "\n")

\* C3 as stated: the record list has one record per non-empty line of the
\* raw model text, so no non-empty line is dropped on the way
C3_NoLineDropped ==
    pc = "parsed" => Len(points) = Cardinality(NonEmpty(RawLines))

\* C3 amended: extract_points returns one record per non-empty line of the
\* text it is given; in qwen_description_chinese.py that text is the raw
\* text without its lines that contain the door phrase
C3_RecordPerLine ==
    pc = "parsed" =>
        /\ Len(points) = Cardinality(NonEmpty(SplitOn(filtered, "\n")))
        /\ module = "qwen_description" => filtered = response
        /\ Len(points) = Cardinality(NonEmpty(RawLines))
                         - (IF module = "qwen_description_chinese"
                            THEN Cardinality(DoorLines(RawLines)) ELSE 0)

C3_Witness ==
    /\ pc = "parsed"
    /\ module = "qwen_description_chinese"
    /\ DoorLines(RawLines) # {}
    /\ Len(points) >= 1

\* C20: every record of the parser has a description that is non-empty
\* after trimming, malformed lines included
C20_DescriptionNonEmpty ==
    pc = "parsed" => \A i \in 1..Len(points) : Strip(points[i][1]) # <<>>

---------------------------------------------------------------------------
(* Status tokens and the PriorityScheduler *)

LowerChar(c) ==
    CASE c = "N" -> "n" [] c = "O" -> "o" [] c = "Y" -> "y"
      [] c = "E" -> "e" [] c = "S" -> "s" [] c = "M" -> "m"
      [] OTHER -> c

\* a faulty variant: the periods are left in
NormalizeKeepsPeriods(status) ==
    LET kept == SelectSeq(status, LAMBDA c : c # " ")
    IN  [i \in 1..Len(kept) |-> LowerChar(kept[i])]

\* x[1].replace(' ', '').replace(".", "").lower()
NormalizeStatus(status) ==
    LET kept == SelectSeq(status, LAMBDA c : c # " " /\ c # ".")
    IN  [i \in 1..Len(kept) |-> LowerChar(kept[i])]

\* no_values of the sort: qwen_description.py line 357,
\* qwen_description_chinese.py line 319
SortNoValues(mod, lang) ==
    IF mod = "qwen_description_chinese" \/ lang = "chinese"
    THEN {NoToken, FouToken} ELSE {NoToken}

\* the key of points.sort
SortKey(p, mod, lang) ==
    IF NormalizeStatus(p[2]) \in SortNoValues(mod, lang) THEN 0 ELSE 1

\* points.sort(key=...): list.sort is stable, so each record goes behind the
\* records already placed whose key is not larger
SortPoints(ps, mod, lang) ==
    LET F[i \in 0..Len(ps)] ==
            IF i = 0 THEN <<>>
            ELSE LET prev == F[i - 1]
                     n == Cardinality({j \in 1..Len(prev) :
                              SortKey(prev[j], mod, lang) <= SortKey(ps[i], mod, lang)})
                 IN  SubSeq(prev, 1, n) \o <<ps[i]>> \o SubSeq(prev, n + 1, Len(prev))
    IN  F[Len(ps)]

\* yes_values / no_values of the annotation loop (qwen_description.py 421-422)
LayoutNoValues  == {NoToken, FouToken}
LayoutYesValues == {YesToken, ShiToken}

\* is_description_only of the annotation loop
IsDescriptionOnly(p) == NormalizeStatus(p[2]) \in LayoutNoValues

\* the test that sends a record to the suggestion branch
IsYes(p) == NormalizeStatus(p[2]) \in LayoutYesValues

---------------------------------------------------------------------------
(* ObservationEnricher: the detector part of process_and_annotate *)

\* A detector label is carried as one opaque element of a text.
Labels == {"alarm light", "bag left unattended"}

\* a hit with "bbox_2d" and no "label"
NoLabelHit == "<no label>"

\* a hit with "bbox_2d" whose "label" is null
NullLabel == "<null>"

\* lines 328-334
SimplifiedLabel(label) ==
    IF label = "bag left unattended" THEN "unattended bag" ELSE label

\* lines 336-339: the record appended for a new label
DetectedRecord(label, lang) ==
    IF lang = "chinese"
    THEN <<<<"U6AA2", "U6E2C", "U5230", " ", SimplifiedLabel(label)>>, FouToken>>
    ELSE <<<<SimplifiedLabel(label), " ", "d", "e", "t", "e", "c", "t", "e", "d">>, NoToken>>

MaxDet == 2

\* What json.loads(extract_json_from_string(detector.response)) gives:
\* an array of hits, each with "bbox_2d" and a "label" (none for NoLabelHit,
\* null for NullLabel); an array with a hit that has no "bbox_2d"
\* (draw_normalized_bounding_boxes raises KeyError); a JSON object instead of
\* an array (it raises TypeError); or text that is no JSON (JSONDecodeError).
DetectorOutcomes ==
    {[kind |-> "array", hits |-> h] : h \in SeqUpTo(Labels \cup {NoLabelHit, NullLabel}, MaxDet)}
    \cup {[kind |-> "no bbox", hits |-> <<>>], [kind |-> "not array", hits |-> <<>>],
          [kind |-> "no json", hits |-> <<>>]}

\* lines 296-350: self.unique_labels is assigned only inside
\* "if detections and len(detections) > 0"; both except clauses only print.
\* A null label is added to the set and then label.lower() raises, which
\* ends the loop with the records appended so far.
Enrich(pts, det, lang, labels) ==
    LET F[i \in 0..Len(det.hits)] ==
            IF i = 0 THEN [points |-> pts, labels |-> {}, raised |-> FALSE]
            ELSE LET hit == det.hits[i]
                 IN  IF F[i - 1].raised \/ hit = NoLabelHit \/ hit \in F[i - 1].labels
                     THEN F[i - 1]
                     ELSE IF hit = NullLabel
                     THEN [points |-> F[i - 1].points,
                           labels |-> F[i - 1].labels \cup {hit}, raised |-> TRUE]
                     ELSE [points |-> Append(F[i - 1].points, DetectedRecord(hit, lang)),
                           labels |-> F[i - 1].labels \cup {hit}, raised |-> FALSE]
    IN  IF det.kind = "array" /\ Len(det.hits) > 0
        THEN F[Len(det.hits)]
        ELSE [points |-> pts, labels |-> labels, raised |-> det.kind # "array"]

---------------------------------------------------------------------------
(* Spec: one QwenDescriber instance, process_and_annotate called again and *)
(* again, each call on a new image                                         *)

Txt(lines) == Join(lines, <<"\n">>)

\* the observation texts the describer may answer with ("" also when the
\* model call failed: run_model returns "")
EngineResponses ==
    { <<>>,
      Txt(<< <<"a", ",", " ", "y", "e", "s">>, <<"b", ",", " ", "n", "o">> >>),
      Txt(<< <<"b", ",", " ", "n", "o">>, <<"a", ",", " ", "y", "e", "s">>,
             <<"c", ",", " ", "N", "o", ".">> >>),
      Txt(<< <<"a", ",", " ", "y", "e", "s">>, <<"d", ",", " ", "m">>,
             <<"e", ",", " ", "Y", "e", "s">> >>),
      Txt(<< <<"d">>, <<"a", ",", "y", "e", "s", ",", "x">> >>) }

\* extract_points of each of them, worked out once
ParsedResponse == [r \in EngineResponses |-> ExtractPoints(r)]

Init ==
    /\ WrapIdle
    /\ RestIdle
    /\ LayoutIdle
    /\ TokenIdle
    /\ module = "qwen_description"
    /\ language \in {"english", "chinese"}
    /\ pc = "constructed"
    /\ response = <<>>
    /\ filtered = <<>>
    /\ points = <<>>
    /\ detections = [kind |-> "array", hits |-> <<>>]
    /\ enriched = <<>>
    /\ unique_labels = {}

\* QwenDescriber.process_and_annotate(image): resp is what the describer
\* answers, det what the detector's answer decodes to, saved whether
\* _annotate_image gets its output written
ProcessAndAnnotate(resp, det, saved) ==
    \E e \in {Enrich(ParsedResponse[resp], det, language, unique_labels)} :
        /\ response' = resp
        /\ filtered' = resp
        /\ detections' = det
        /\ enriched' = e.points
        /\ unique_labels' = e.labels
        /\ points' = SortPoints(e.points, module, language)
        /\ pc' = IF saved THEN "returned" ELSE "raised"
        /\ UNCHANGED <<module, language, layoutVars, tokenVars, wrapVars, restVars>>

Next ==
    \E resp \in EngineResponses, det \in DetectorOutcomes, saved \in BOOLEAN :
        ProcessAndAnnotate(resp, det, saved)

Spec == Init /\ [][Next]_vars

Called == pc = "returned"

\* the distinct labels of the detections of the last call
DistinctLabels == {detections.hits[i] : i \in 1..Len(detections.hits)} \cap Labels

\* C1: after a call, unique_labels holds exactly the distinct labels detected
\* in that call's image, and nothing when the image had no detection or the
\* detector's answer could not be decoded
C1_LabelsOfThisImage == Called => unique_labels = DistinctLabels

\* the labels in the order of their first occurrence
FirstOccurrences(hits) ==
    LET first == {i \in 1..Len(hits) :
                   hits[i] \in Labels /\ \A j \in 1..(i - 1) : hits[j] # hits[i]}
        F[i \in 0..Len(hits)] ==
            IF i = 0 THEN <<>>
            ELSE IF i \in first THEN Append(F[i - 1], hits[i]) ELSE F[i - 1]
    IN  F[Len(hits)]

\* the records enrichment appended in the last call
Appended == SubSeq(enriched, Len(ParsedResponse[response]) + 1, Len(enriched))

\* C2: for any detector output list, enrichment appends one non-actionable
\* record per distinct label, in the order of first occurrence, and the
\* unique-label set has as many elements as there are distinct labels
C2_OneRecordPerLabel ==
    (Called /\ detections.kind = "array") =>
        /\ Appended = [i \in 1..Len(FirstOccurrences(detections.hits)) |->
                          DetectedRecord(FirstOccurrences(detections.hits)[i], language)]
        /\ \A i \in 1..Len(Appended) : IsDescriptionOnly(Appended[i])
        /\ Cardinality(unique_labels) = Cardinality(DistinctLabels)

\* what the specification calls a record: actionable when its status is the
\* yes token, non-actionable otherwise
Actionable(p) == IsYes(p)

\* C6: in the scheduler's output every non-actionable record precedes every
\* actionable record, and records of equal priority keep their input order
C6_StablePartition ==
    Called =>
        /\ \A i, j \in 1..Len(points) :
               (~Actionable(points[i]) /\ Actionable(points[j])) => i < j
        /\ SelectSeq(points, Actionable) = SelectSeq(enriched, Actionable)
        /\ SelectSeq(points, LAMBDA p : ~Actionable(p))
              = SelectSeq(enriched, LAMBDA p : ~Actionable(p))

\* a detector answer that is not an array of objects with a label and a
\* bbox_2d each
Malformed(det) ==
    \/ det.kind # "array"
    \/ \E i \in 1..Len(det.hits) : det.hits[i] \notin Labels

\* C13: a detector answer that is not the expected array is treated like an
\* empty array: enrichment appends nothing, and the list that is sorted and
\* annotated is the parser's
C13_MalformedIsEmpty ==
    (pc \in {"returned", "raised"} /\ Malformed(detections)) =>
        /\ enriched = ParsedResponse[response]
        /\ points = SortPoints(ParsedResponse[response], module, language)

---------------------------------------------------------------------------
(* LayoutSpec: the loop of _annotate_image, one step per point, for every  *)
(* record list in scheduler order and every measured size                  *)

Margin      == 60      \* the first cursor position, both axes
PadLeft     == 35      \* the panel around the text: left, top and right ...
PadBottom   == 20      \* ... and bottom
LineHeight  == 42      \* line_height
ColumnGap   == 100     \* added to the width to reach the second column
PairRowGap  == 80      \* added to row_max_height when a row is closed
SingleRowGap == 95     \* 20 + 35 + 40, after a box that is a row by itself
RightInset  == 130     \* 60 + 70, right alignment

Max(a, b) == IF a >= b THEN a ELSE b

\* the row advance after a box that is not description-only:
\* qwen_description.py line 544, qwen_description_chinese.py line 468
AfterSingleRow(mod, y, total_height) ==
    IF mod = "qwen_description_chinese"
    THEN y + total_height + PairRowGap
    ELSE y + total_height + SingleRowGap

\* a faulty variant: the width of the first box is left out
NextColumnXNoWidth(x, max_width) == x + ColumnGap

\* line 537 (466): the x of the second box of a row
NextColumnX(x, max_width) == x + max_width + ColumnGap

\* a faulty variant: the box width is not taken off
RightAlignedXNoWidth(width, max_width) == width - RightInset

\* line 479: the text origin of a right-aligned box
RightAlignedX(width, max_width) == width - max_width - RightInset

\* a faulty variant: the row is closed after every box
RowIsFullAlways(count) == count >= 1

\* line 529 (460): the row is closed when it holds two boxes
RowIsFull(count) == count >= 2

\* background_bbox, lines 488-493: left, top, right, bottom
Panel(b) == [left   |-> b.x - PadLeft,
             top    |-> b.y - PadLeft,
             right  |-> b.x + b.w + PadLeft,
             bottom |-> b.y + b.h + PadBottom]

MaxPoints == 3

\* the status tokens of the records: no, yes, an unrecognised one, the Chinese no
LayoutStatuses == {NoToken, YesToken, <<"m">>, FouToken}

\* measured max_width of a block, and the number of lines wrap_text_lines
\* gives for a record with a suggestion (two headers at least)
Widths == {0, 100, 300}
SuggestionLineCounts == {2, 4}
CanvasWidths == {1000}

LayoutConfigs ==
    {<<"qwen_description", l, a>> : l \in {"english", "chinese"}, a \in {"left", "right"}}
    \cup {<<"qwen_description_chinese", "chinese", "left">>}

\* _annotate_image is entered with the sorted list (lines 358-362)
LayoutInit ==
    /\ WrapIdle
    /\ RestIdle
    /\ TokenIdle
    /\ \E c \in LayoutConfigs :
          /\ module = c[1] /\ language = c[2] /\ text_alignment = c[3]
    /\ \E sts \in SeqUpTo(LayoutStatuses, MaxPoints) :
          /\ points = [i \in 1..Len(sts) |-> <<<<"a">>, sts[i]>>]
          /\ points = SortPoints(points, module, language)
    /\ pc = "annotating"
    /\ response = <<>> /\ filtered = <<>>
    /\ detections = <<>> /\ enriched = <<>> /\ unique_labels = {}
    /\ img_width \in CanvasWidths
    /\ idx = 0
    /\ current_y_position = Margin
    /\ current_x_position = IF text_alignment = "right" THEN None ELSE Some(Margin)
    /\ description_only_column_count = 0
    /\ row_max_height = 0
    /\ boxes = <<>>

\* one pass of "for point in points": max_width is the measured width of
\* the block, n_lines the number of lines wrap_text_lines returned
PlaceBox(max_width, n_lines) ==
    /\ pc = "annotating"
    /\ idx < Len(points)
    /\ LET point == points[idx + 1]
           is_description_only == IsDescriptionOnly(point)
           flush == IsYes(point) /\ description_only_column_count > 0
           y1   == IF flush THEN current_y_position + row_max_height + PairRowGap
                            ELSE current_y_position
           x1   == IF flush THEN Some(Margin) ELSE current_x_position
           cnt1 == IF flush THEN 0 ELSE description_only_column_count
           rmh1 == IF flush THEN 0 ELSE row_max_height
           lines == IF IsYes(point) THEN n_lines ELSE 2
           total_height == LineHeight * lines
           text_x == IF text_alignment = "right"
                     THEN RightAlignedX(img_width, max_width)
                     ELSE IF x1 # None THEN x1[1] ELSE Margin
           cnt2 == cnt1 + 1
           rmh2 == Max(rmh1, total_height)
       IN  /\ IsYes(point) \/ n_lines = 2
           /\ boxes' = Append(boxes, [x |-> text_x, y |-> y1, w |-> max_width,
                                      h |-> total_height,
                                      desc_only |-> is_description_only,
                                      yes |-> IsYes(point),
                                      count_before |-> cnt1])
           /\ idx' = idx + 1
           /\ IF is_description_only
              THEN IF text_alignment = "right"
                   THEN /\ current_y_position' = y1 + total_height + SingleRowGap
                        /\ current_x_position' = None
                        /\ description_only_column_count' = 0
                        /\ row_max_height' = 0
                   ELSE IF RowIsFull(cnt2)
                   THEN /\ current_y_position' = y1 + rmh2 + PairRowGap
                        /\ current_x_position' = Some(Margin)
                        /\ description_only_column_count' = 0
                        /\ row_max_height' = 0
                   ELSE /\ current_x_position' = Some(NextColumnX(x1[1], max_width))
                        /\ current_y_position' = y1
                        /\ description_only_column_count' = cnt2
                        /\ row_max_height' = rmh2
              ELSE /\ current_y_position' = AfterSingleRow(module, y1, total_height)
                   /\ current_x_position' = IF text_alignment = "right"
                                            THEN None ELSE Some(Margin)
                   /\ description_only_column_count' = cnt1
                   /\ row_max_height' = rmh1
    /\ UNCHANGED <<parseVars, engineVars, text_alignment, img_width, tokenVars, wrapVars, restVars>>

\* the loop is over: the image is saved and the path returned
FinishAnnotate ==
    /\ pc = "annotating"
    /\ idx = Len(points)
    /\ pc' = "returned"
    /\ UNCHANGED <<module, response, filtered, points, engineVars, layoutVars, tokenVars, wrapVars, restVars>>

LayoutNext ==
    \/ \E w \in Widths, n \in SuggestionLineCounts : PlaceBox(w, n)
    \/ FinishAnnotate

LayoutSpec == LayoutInit /\ [][LayoutNext]_vars

Overlap(p, q) ==
    /\ p.left < q.right /\ q.left < p.right
    /\ p.top < q.bottom /\ q.top < p.bottom

\* C7: the panels of two blocks placed in one annotation pass never overlap
C7_PanelsDisjoint ==
    \A i, j \in 1..Len(boxes) : i < j => ~Overlap(Panel(boxes[i]), Panel(boxes[j]))

C7_Witness ==
    /\ pc = "returned"
    /\ Len(boxes) = 3
    /\ boxes[1].desc_only /\ boxes[2].desc_only /\ boxes[3].yes
    /\ text_alignment = "left"
    /\ boxes[1].y = boxes[2].y

\* a status that is neither a yes token nor a no token
Unrecognised(p) == ~IsYes(p) /\ NormalizeStatus(p[2]) \notin LayoutNoValues

\* where the cursor stands after a non-actionable block b (all of them have
\* two lines, so the row is as high as b)
CursorAfterNonActionable(b) ==
    IF text_alignment = "right"
    THEN [x |-> None, y |-> b.y + b.h + SingleRowGap, count |-> 0]
    ELSE IF b.count_before = 0
    THEN [x |-> Some(b.x + b.w + ColumnGap), y |-> b.y, count |-> 1]
    ELSE [x |-> Some(Margin), y |-> b.y + b.h + PairRowGap, count |-> 0]

Cursor == [x |-> current_x_position, y |-> current_y_position,
           count |-> description_only_column_count]

\* C5: a record with an unrecognised status is treated as non-actionable by
\* every stage: it has the scheduler key of a non-actionable record, it gets
\* no suggestion (its block is the two-line description block), and the
\* layout advances the cursor as for a non-actionable record
C5_UnrecognisedIsNonActionable ==
    \A i \in 1..Len(boxes) :
        Unrecognised(points[i]) =>
            /\ SortKey(points[i], module, language)
                  = SortKey(<<points[i][1], NoToken>>, module, language)
            /\ boxes[i].h = 2 * LineHeight
            /\ i = Len(boxes) => Cursor = CursorAfterNonActionable(boxes[i])

BelowEarlier(i) ==
    \A j \in 1..(i - 1) : Panel(boxes[j]).bottom < Panel(boxes[i]).top

C9_RightAlignmentStacks ==
    text_alignment = "right" =>
        /\ description_only_column_count = 0
        /\ \A i \in 2..Len(boxes) : boxes[i].y > Panel(boxes[i - 1]).bottom
        /\ \A i \in 1..Len(boxes) :
               Panel(boxes[i]).right = img_width - (Margin + PadLeft)

C9_Witness ==
    /\ text_alignment = "right"
    /\ pc = "returned"
    /\ Len(boxes) = 3
    /\ boxes[1].desc_only /\ boxes[2].desc_only /\ boxes[3].yes
    /\ boxes[1].w # boxes[2].w

\* a step of the loop that places a box in left alignment
PlacesLeft == text_alignment = "left" /\ idx' = idx + 1

\* the box that step places
Placed == boxes'[Len(boxes')]

\* C24: in left alignment, an actionable record that finds one non-actionable
\* box pending in the row is placed after a flush (y advanced by
\* row_max_height + 80, x at the margin, counter and row_max_height 0); the
\* cursor after an actionable box of text height h placed at y is at the
\* margin and at y + h + 95.
C24_ActionableTransition ==
    [][(PlacesLeft /\ IsYes(points[idx + 1])) =>
          /\ description_only_column_count = 1 =>
                 /\ Placed.y = current_y_position + row_max_height + 80
                 /\ Placed.x = 60
          /\ description_only_column_count = 0 =>
                 /\ Placed.y = current_y_position
                 /\ Placed.x = current_x_position[1]
          /\ description_only_column_count' = 0
          /\ row_max_height' = 0
          /\ current_y_position' = Placed.y + Placed.h + 95
          /\ current_x_position' = Some(60)]_vars

\* the text height of the non-actionable box placed last
PendingHeight ==
    LET ds == {i \in 1..Len(boxes) : boxes[i].desc_only}
    IN  boxes[CHOOSE i \in ds : \A j \in ds : j <= i].h

---------------------------------------------------------------------------
(* TokenSpec: the sort key and the tests of the annotation loop, applied   *)
(* to every spelling of a status token                                     *)

MaxFill == 1

UpperChar(c) ==
    CASE c = "n" -> "N" [] c = "o" -> "O" [] c = "y" -> "Y"
      [] c = "e" -> "E" [] c = "s" -> "S" [] c = "m" -> "M"
      [] c = "a" -> "A" [] c = "w" -> "W" [] c = "f" -> "F"
      [] OTHER -> c

CanonicalTokens == {NoToken, YesToken, FouToken, ShiToken}

\* runs of spaces and periods, at most MaxFill long
Fillers == SeqUpTo({" ", "."}, MaxFill)

\* the spellings of c: each letter in either case, a filler before, between
\* and after the letters
SpellingsOf(c) ==
    LET n == Len(c)
        cases == {g \in [1..n -> {c[i] : i \in 1..n} \cup {UpperChar(c[i]) : i \in 1..n}] :
                     \A i \in 1..n : g[i] \in {c[i], UpperChar(c[i])}}
    IN  {Concat([k \in 1..(2 * n + 1) |->
                    IF k % 2 = 1 THEN f[(k + 1) \div 2] ELSE <<g[k \div 2]>>]) :
            f \in [1..(n + 1) -> Fillers], g \in cases}

\* what the scheduler and the annotation loop make of a record
Classify(p, mod, lang) ==
    [key       |-> SortKey(p, mod, lang),
     desc_only |-> IsDescriptionOnly(p),
     yes       |-> IsYes(p)]

TokenConfigs == {<<"qwen_description", "english">>, <<"qwen_description", "chinese">>,
                 <<"qwen_description_chinese", "chinese">>}

TokenInit ==
    /\ WrapIdle
    /\ RestIdle
    /\ LayoutIdle
    /\ \E c \in TokenConfigs : module = c[1] /\ language = c[2]
    /\ pc = "start"
    /\ response = <<>> /\ filtered = <<>> /\ points = <<>>
    /\ detections = <<>> /\ enriched = <<>> /\ unique_labels = {}
    /\ canonical \in CanonicalTokens
    /\ token \in SpellingsOf(canonical)
    /\ verdict = <<>>

\* the key of line 358 (319) and the tests of lines 425-427 (366-368), on
\* the record [a, token]
ClassifyRecord ==
    /\ pc = "start"
    /\ verdict' = Classify(<<<<"a">>, token>>, module, language)
    /\ pc' = "classified"
    /\ UNCHANGED <<module, response, filtered, points, engineVars, layoutVars,
                   canonical, token, wrapVars, restVars>>

TokenNext == ClassifyRecord

TokenSpec == TokenInit /\ [][TokenNext]_vars

\* C4: a spelling of a status token that differs from it by letter case,
\* spaces or periods gets the sort key and the loop's verdicts of the token
C4_SpellingsClassifiedAlike ==
    pc = "classified" => verdict = Classify(<<<<"a">>, canonical>>, module, language)

C4_Witness ==
    /\ pc = "classified"
    /\ canonical = NoToken
    /\ token = <<" ", "N", "o", ".">>
    /\ verdict.key = 0 /\ verdict.desc_only

---------------------------------------------------------------------------
(* TextWrapper: wrap_text_lines of both classes *)

DescHeaderEn == <<"D", "e", "s", "c", "r", "i", "p", "t", "i", "o", "n", ":">>       \* "Description:"
SuggHeaderEn == <<"S", "u", "g", "g", "e", "s", "t", "i", "o", "n", ":">>       \* "Suggestion:"
DescHeaderZh == <<"U63CF", "U8FF0", ":">>       \* U+63CF U+8FF0 ":"
SuggHeaderZh == <<"U5EFA", "U8B70", ":">>       \* U+5EFA U+8B70 ":"

Bullet == <<"-", " ">>      \* "- "
Indent == <<" ", " ">>      \* two spaces

\* the default suggestion of qwen_description_chinese.py, lines 199 and 216
DefaultSuggestionZh == <<"U8ACB", "U53CA", "U6642", "U8655", "U7406">>

Dots    == <<".", ".", ".">>
DotsZh  == <<"U3002", "U3002", "U3002">>
PlaceholderZh == <<"-", ".", ".", ".", "UFF0C", "-", ".", ".", ".", "UFF0C", "-", ".", ".", ".">>     \* "-...", fullwidth comma, "-...", ...
PlaceholderEn == <<"-", ".", ".", ".", ",", " ", "-", ".", ".", ".", ",", " ", "-", ".", ".", ".">>     \* "-..., -..., -..."

\* str.split(): the runs of characters between whitespace
RECURSIVE Words(_)
Words(s) ==
    LET t == LStrip(s)
    IN  IF t = <<>> THEN <<>>
        ELSE LET ends == {k \in 1..Len(t) : IsSpace(t[k])}
                 n == IF ends = {} THEN Len(t) + 1
                      ELSE CHOOSE k \in ends : \A j \in ends : k <= j
             IN  <<SubSeq(t, 1, n - 1)>> \o Words(SubSeq(t, n, Len(t)))

\* the greedy loop of qwen_description.py (lines 153-163, 176-186, 190-200):
\* the lines it appends for a list of words
WrapWords(words, budget) ==
    LET F[i \in 0..Len(words)] ==
            IF i = 0 THEN [lines |-> <<>>, current_line |-> Bullet]
            ELSE LET current_line == F[i - 1].current_line
                     test_line == current_line \o words[i] \o <<" ">>
                 IN  IF Len(Strip(test_line)) > budget /\ current_line # Bullet
                     THEN [lines |-> Append(F[i - 1].lines, RStrip(current_line)),
                           current_line |-> Indent \o words[i] \o <<" ">>]
                     ELSE [lines |-> F[i - 1].lines, current_line |-> test_line]
        last == F[Len(words)]
    IN  IF Strip(last.current_line) # <<"-">>
        THEN Append(last.lines, RStrip(last.current_line))
        ELSE last.lines

\* a faulty variant: the leading dash of a suggestion line is kept
StartsWithDashNever(s) == FALSE

\* s.startswith('-')
StartsWithDash(s) == s # <<>> /\ s[1] = "-"

\* QwenDescriber.wrap_text_lines (qwen_description.py): it always returns
WrapTextLinesEn(desc, sugg, budget0, lang) ==
    LET budget == IF lang = "chinese" THEN 30 ELSE budget0
        desc_header == IF lang = "chinese" THEN DescHeaderZh ELSE DescHeaderEn
        sugg_header == IF lang = "chinese" THEN SuggHeaderZh ELSE SuggHeaderEn
        d0 == Strip(desc)
        d1 == IF d0 # <<>> /\ lang = "english"
              THEN <<UpperChar(d0[1])>> \o Tail(d0) ELSE d0
        desc_lines == IF desc # <<>> THEN WrapWords(Words(d1), budget) ELSE <<>>
        suggestion_list == SplitOn(sugg, "\n")
        S[i \in 0..Len(suggestion_list)] ==
            IF i = 0 THEN <<>>
            ELSE LET item == Strip(suggestion_list[i])
                 IN  IF item = <<>> THEN S[i - 1]
                     ELSE IF StartsWithDash(item)
                     THEN S[i - 1] \o WrapWords(Words(Strip(Tail(item))), budget)
                     ELSE S[i - 1] \o WrapWords(Words(item), budget)
    IN  [hang  |-> FALSE,
         lines |-> <<desc_header>> \o desc_lines \o <<sugg_header>>
                   \o S[Len(suggestion_list)]]

\* '一' <= char <= '鿿', for the characters of the model
CJKChars == {"U8ACB", "U53CA", "U6642", "U8655", "U7406", "U6E05", "U5730", "U6FD5",
             "U63CF", "U8FF0", "U5EFA", "U8B70", "U5426", "U662F"}
IsChinese(c) == c \in CJKChars

\* ' \n\t,.:;!?'
WordDelimiters == {" ", "\n", "\t", ",", ".", ":", ";", "!", "?"}

\* the while loop of wrap_chinese_text (lines 143-177) from index i on; the
\* loop never ends when a pass leaves i where it was
RECURSIVE WrapChineseLoop(_, _, _, _, _)
WrapChineseLoop(text, max_len, i, lines, current_line) ==
    IF i > Len(text)
    THEN [hang  |-> FALSE,
          lines |-> IF Strip(current_line) \notin {Strip(Bullet), Strip(Indent)}
                    THEN Append(lines, RStrip(current_line)) ELSE lines]
    ELSE IF IsChinese(text[i])
    THEN IF Len(current_line) >= max_len /\ current_line # Bullet
         THEN WrapChineseLoop(text, max_len, i + 1, Append(lines, current_line),
                              Indent \o <<text[i]>>)
         ELSE WrapChineseLoop(text, max_len, i + 1, lines, Append(current_line, text[i]))
    ELSE LET stops == {k \in i..Len(text) : text[k] \in WordDelimiters}
             word_end == IF stops = {} THEN Len(text) + 1
                         ELSE CHOOSE k \in stops : \A j \in stops : k <= j
             word == SubSeq(text, i, word_end - 1)
             break == Len(current_line \o word) > max_len /\ current_line # Bullet
             lines1 == IF break THEN Append(lines, RStrip(current_line)) ELSE lines
             line1 == IF break THEN Indent \o word ELSE current_line \o word
             blank == word_end <= Len(text) /\ text[word_end] \in {" ", "\t"}
             i1 == IF blank THEN word_end + 1 ELSE word_end
         IN  IF i1 = i THEN [hang |-> TRUE, lines |-> lines1]
             ELSE WrapChineseLoop(text, max_len, i1, lines1,
                                  IF blank THEN Append(line1, " ") ELSE line1)

\* wrap_chinese_text(text, max_len=...)
WrapChineseText(text, max_len) ==
    IF text = <<>> THEN [hang |-> FALSE, lines |-> <<>>]
    ELSE WrapChineseLoop(text, max_len, 1, <<>>, Bullet)

\* item.count('...'): occurrences that do not overlap
RECURSIVE CountDots(_)
CountDots(s) ==
    IF Len(s) < 3 THEN 0
    ELSE IF SubSeq(s, 1, 3) = Dots THEN 1 + CountDots(SubSeq(s, 4, Len(s)))
    ELSE CountDots(Tail(s))

\* wrapped.extend(wrap_chinese_text(...)): a call that never returns leaves
\* the caller without a result
Extend(acc, more) ==
    IF acc.hang THEN acc
    ELSE [hang |-> more.hang, lines |-> acc.lines \o more.lines]

\* QwenDescriber_chinese.wrap_text_lines (qwen_description_chinese.py)
WrapTextLinesZh(desc, sugg, budget) ==
    LET head == Extend([hang |-> FALSE, lines |-> <<DescHeaderZh>>],
                       IF desc # <<>> THEN WrapChineseText(Strip(desc), budget)
                       ELSE [hang |-> FALSE, lines |-> <<>>])
        s0 == Strip(sugg)
        s1 == IF s0 = <<>> \/ s0 \in {PlaceholderZh, PlaceholderEn, Dots, DotsZh}
              THEN DefaultSuggestionZh ELSE s0
        suggestion_list == SplitOn(s1, "\n")
        S[i \in 0..Len(suggestion_list)] ==
            IF i = 0 THEN Extend(head, [hang |-> FALSE, lines |-> <<SuggHeaderZh>>])
            ELSE LET item == Strip(suggestion_list[i])
                     bare == IF StartsWithDash(item) THEN Strip(Tail(item)) ELSE item
                 IN  IF item = <<>>
                        \/ item \in {Dots, DotsZh, <<"-">> \o Dots, <<"-">> \o Dots \o <<",">>}
                     THEN S[i - 1]
                     ELSE IF Contains(bare, Dots) /\ CountDots(bare) >= 2
                     THEN S[i - 1]
                     ELSE Extend(S[i - 1], WrapChineseText(bare, budget))
        body == S[Len(suggestion_list)]
        headers == Cardinality({i \in 1..Len(body.lines) :
                       SubSeq(body.lines[i], 1, Len(DescHeaderZh)) = DescHeaderZh})
    IN  IF ~body.hang /\ Len(body.lines) = headers + 1
        THEN Extend(body, WrapChineseText(DefaultSuggestionZh, budget))
        ELSE body

---------------------------------------------------------------------------
(* WrapSpec: wrap_text_lines on every description and suggestion of the    *)
(* sets below                                                              *)

MaxSuggPieces == 2

SuggPieces == {<<"-">>, Dots, DotsZh, PlaceholderZh, PlaceholderEn, <<" ">>, <<"\n">>,
               <<"f", "i", "x">>, <<"U6E05", "U7406">>, <<" ", "-">>,
               <<"\n", "-", " ", "f", "i", "x">>}
Suggestions == {Concat(ps) : ps \in SeqUpTo(SuggPieces, MaxSuggPieces)}

Descriptions == {<<>>, <<"w", "e", "t", " ", "f", "l", "o", "o", "r">>, <<"U5730", "U6FD5">>}

\* max_chars: a narrow one, and those of the call sites (line 446; line 394)
Budgets == {6, 25, 40}

WrapInit ==
    /\ RestIdle
    /\ LayoutIdle
    /\ TokenIdle
    /\ detections = <<>> /\ enriched = <<>> /\ unique_labels = {}
    /\ \E c \in TokenConfigs : module = c[1] /\ language = c[2]
    /\ pc = "start"
    /\ response = <<>> /\ filtered = <<>> /\ points = <<>>
    /\ description \in Descriptions
    /\ suggestion \in Suggestions
    /\ max_chars \in Budgets
    /\ wrapped = <<>>

WrapResult ==
    IF module = "qwen_description_chinese"
    THEN WrapTextLinesZh(description, suggestion, max_chars)
    ELSE WrapTextLinesEn(description, suggestion, max_chars, language)

\* a call of wrap_text_lines that returns
WrapReturns ==
    /\ pc = "start"
    /\ ~WrapResult.hang
    /\ wrapped' = WrapResult.lines
    /\ pc' = "wrapped"
    /\ UNCHANGED <<module, response, filtered, points, engineVars, layoutVars, tokenVars,
                   description, suggestion, max_chars, restVars>>

\* a call of wrap_text_lines that never returns
WrapHangs ==
    /\ pc = "start"
    /\ WrapResult.hang
    /\ pc' = "hung"
    /\ UNCHANGED <<module, response, filtered, points, engineVars, layoutVars, tokenVars,
                   wrapVars, restVars>>

WrapNext == WrapReturns \/ WrapHangs

WrapSpec == WrapInit /\ [][WrapNext]_vars

\* the fixed fallback phrase: "please address promptly", or its Chinese form
FallbackEn == <<"p", "l", "e", "a", "s", "e", " ", "a", "d", "d", "r", "e", "s", "s", " ", "p", "r", "o", "m", "p", "t", "l", "y">>
Fallback == IF language = "chinese" THEN DefaultSuggestionZh ELSE FallbackEn

\* an empty suggestion or a placeholder: nothing but dashes, periods, commas
\* and white space
IsPlaceholder(s) ==
    \A i \in 1..Len(s) : s[i] \in {"-", ".", ",", "UFF0C", "U3002", " ", "\n"}

\* the lines of the output that follow the suggestion header
UnderSuggestion ==
    LET hs == {i \in 1..Len(wrapped) : wrapped[i] \in {SuggHeaderEn, SuggHeaderZh}}
        h  == CHOOSE i \in hs : \A j \in hs : j <= i
    IN  SubSeq(wrapped, h + 1, Len(wrapped))

\* the text under the suggestion header with the bullets and indents taken
\* off, the lines of one item put together again
UnderText ==
    LET bare == [i \in 1..Len(UnderSuggestion) |->
                    SubSeq(UnderSuggestion[i], 3, Len(UnderSuggestion[i]))]
    IN  IF language = "chinese" THEN Concat(bare) ELSE Join(bare, <<" ">>)

\* C10: when the suggestion is empty or a placeholder, the output holds the
\* fallback phrase under the suggestion header and no placeholder text
C10_PlaceholderReplaced ==
    (pc = "wrapped" /\ IsPlaceholder(suggestion)) =>
        /\ Contains(UnderText, Fallback)
        /\ ~Contains(UnderText, Dots)
        /\ ~Contains(UnderText, DotsZh)

\* the lines of the output that are not headers
BodyLines ==
    SelectSeq(wrapped, LAMBDA l : l \notin {DescHeaderEn, SuggHeaderEn, DescHeaderZh, SuggHeaderZh})

\* a body line without its bullet or indent
Unprefixed(l) == SubSeq(l, 3, Len(l))

\* the words of the input: those of the description (its first letter
\* capitalised in English), then those of each line of the suggestion, the
\* line's leading dash taken off
InputWords ==
    LET d == Strip(description)
        cap == IF d # <<>> /\ language = "english" THEN <<UpperChar(d[1])>> \o Tail(d) ELSE d
        items == SplitOn(suggestion, "\n")
        bare(item) == IF StartsWithDash(Strip(item)) THEN Tail(Strip(item)) ELSE item
    IN  Words(cap) \o Concat([i \in 1..Len(items) |-> Words(bare(items[i]))])

\* the words of the output, line after line
OutputWords == Concat([i \in 1..Len(BodyLines) |-> Words(Unprefixed(BodyLines[i]))])

EnglishMode == module = "qwen_description" /\ language = "english"

\* C14: in English mode every body line has trimmed length at most max_chars,
\* unless it is a single word that alone exceeds max_chars; every word of the
\* input is in the output, in the input's order
C14_EnglishLinesFit ==
    (pc = "wrapped" /\ EnglishMode) =>
        /\ \A i \in 1..Len(BodyLines) :
              \/ Len(Strip(BodyLines[i])) <= max_chars
              \/ /\ Len(Words(Unprefixed(BodyLines[i]))) = 1
                 /\ Len(Words(Unprefixed(BodyLines[i]))[1]) > max_chars
        /\ OutputWords = InputWords

ChineseMode == language = "chinese"

\* the budget the wrapper works with: qwen_description.py sets 30 in Chinese mode
Budget == IF module = "qwen_description" /\ language = "chinese" THEN 30 ELSE max_chars

\* the characters of a text that are not white space
Inked(s) == SelectSeq(s, LAMBDA c : ~IsSpace(c))

\* a suggestion the wrapper is meant to replace or to skip: a placeholder, or
\* one holding an ellipsis
Ellipsis == IsPlaceholder(suggestion) \/ Contains(suggestion, Dots) \/ Contains(suggestion, DotsZh)

\* C15: in Chinese mode every body line has at most max_chars characters,
\* unless it is a single token that alone exceeds max_chars; a line is cut
\* in front of a CJK character only when it has reached max_chars; every
\* character of the input is in the output
C15_ChineseLinesFit ==
    (pc = "wrapped" /\ ChineseMode) =>
        /\ \A i \in 1..Len(BodyLines) :
              \/ Len(BodyLines[i]) <= Budget
              \/ /\ Len(Words(Unprefixed(BodyLines[i]))) = 1
                 /\ Len(Words(Unprefixed(BodyLines[i]))[1]) > Budget
        /\ \A i \in 1..(Len(BodyLines) - 1) :
              (/\ SubSeq(BodyLines[i + 1], 1, 2) = Indent
               /\ Len(BodyLines[i + 1]) > 2
               /\ IsChinese(BodyLines[i + 1][3])) => Len(BodyLines[i]) >= Budget
        /\ ~Ellipsis => Inked(Concat(OutputWords)) = Inked(Concat(InputWords))

\* is p a prefix of s
IsPrefix(p, s) == Len(p) <= Len(s) /\ SubSeq(s, 1, Len(p)) = p

\* the lines of the suggestion as given, one leading dash taken off each, the
\* blank ones left out
SourceItems ==
    LET items == SplitOn(suggestion, "\n")
        bare == [i \in 1..Len(items) |->
                    LET t == Strip(items[i])
                    IN  IF t # <<>> /\ Head(t) = "-" THEN Strip(Tail(t)) ELSE t]
    IN  SelectSeq(bare, LAMBDA t : t # <<>>)

\* the bulleted lines among ls
Bulleted(ls) == SelectSeq(ls, LAMBDA l : IsPrefix(Bullet, l))

\* ls is a run of wrapped blocks: a bulleted line, then indented lines
Blocks(ls) ==
    /\ \A i \in 1..Len(ls) : IsPrefix(Bullet, ls[i]) \/ IsPrefix(Indent, ls[i])
    /\ ls # <<>> => IsPrefix(Bullet, ls[1])

\* C16: the output is the description header, the description's lines, the
\* suggestion header, the suggestion's lines; every line of the suggestion
\* gives one block, whose first line is "- " and the start of that line's
\* text without its leading dash (or of the default suggestion put in its
\* place), the others starting with two spaces
C16_OutputShape ==
    pc = "wrapped" =>
        LET hs == {i \in 1..Len(wrapped) : wrapped[i] \in {SuggHeaderEn, SuggHeaderZh}}
            h  == CHOOSE i \in hs : TRUE
            desc_lines == SubSeq(wrapped, 2, h - 1)
            sugg_lines == SubSeq(wrapped, h + 1, Len(wrapped))
        IN  /\ Len(wrapped) >= 2
            /\ wrapped[1] = IF language = "chinese" THEN DescHeaderZh ELSE DescHeaderEn
            /\ Cardinality(hs) = 1
            /\ wrapped[h] = IF language = "chinese" THEN SuggHeaderZh ELSE SuggHeaderEn
            /\ Blocks(desc_lines)
            /\ Len(Bulleted(desc_lines)) = IF Strip(description) = <<>> THEN 0 ELSE 1
            /\ Blocks(sugg_lines)
            /\ \A b \in 1..Len(Bulleted(sugg_lines)) :
                  LET text == Inked(Unprefixed(Bulleted(sugg_lines)[b]))
                  IN  \/ \E k \in 1..Len(SourceItems) : IsPrefix(text, Inked(SourceItems[k]))
                      \/ IsPrefix(text, DefaultSuggestionZh)
            /\ ~Ellipsis =>
                  /\ Len(Bulleted(sugg_lines)) = Len(SourceItems)
                  /\ \A k \in 1..Len(SourceItems) :
                        IsPrefix(Inked(Unprefixed(Bulleted(sugg_lines)[k])), Inked(SourceItems[k]))

\* two lines of suggestion, the second with a leading dash, and a block that
\* runs over two lines
C16_Witness ==
    /\ pc = "wrapped"
    /\ ~Ellipsis
    /\ Len(SourceItems) = 2
    /\ \E i \in 1..Len(suggestion) : suggestion[i] = "-"
    /\ \E i \in 1..Len(wrapped) : IsPrefix(Indent, wrapped[i])

\* C27: wrap_chinese_text comes to an end on every text and every positive
\* max_len, also when ASCII punctuation stands between or after CJK
\* characters: no call of the Chinese wrap_text_lines is left without a result.
C27_ChineseWrapTerminates ==
    module = "qwen_description_chinese" => pc # "hung"

---------------------------------------------------------------------------
(* SuggestSpec: the loop of _annotate_image over the records of one image, *)
(* up to the lines it draws for each record                                *)

MaxRecords == 2

\* the default suggestion of the loop of qwen_description_chinese.py, line 392
CallerDefaultZh == <<"U8ACB", "U5B89", "U6392", "U4EBA", "U54E1", "U53CA", "U6642", "U8655", "U7406">>

\* str.count(sub)
RECURSIVE CountOf(_, _)
CountOf(s, sub) ==
    IF Len(s) < Len(sub) THEN 0
    ELSE IF SubSeq(s, 1, Len(sub)) = sub
         THEN 1 + CountOf(SubSeq(s, Len(sub) + 1, Len(s)), sub)
         ELSE CountOf(Tail(s), sub)

\* qwen_description_chinese.py lines 385-392: the answer stripped, the default
\* in its place when it is empty or one of the placeholders tested for
ResponseTextZh(answer) ==
    LET response_text == Strip(answer)
    IN  IF \/ response_text = <<>>
           \/ response_text \in {PlaceholderZh, PlaceholderEn, Dots}
           \/ CountOf(response_text, Dots) >= 2
           \/ CountOf(response_text, DotsZh) >= 2
        THEN CallerDefaultZh ELSE response_text

UpperFirst(s) == IF s = <<>> THEN s ELSE <<UpperChar(s[1])>> \o Tail(s)

\* the else branch: qwen_description.py lines 449-453,
\* qwen_description_chinese.py lines 405-408
DescriptionOnlyLines(p, mod, lang) ==
    IF mod = "qwen_description_chinese"
    THEN <<DescHeaderZh, Bullet \o UpperFirst(Strip(p[1]))>>
    ELSE <<IF lang = "chinese" THEN DescHeaderZh ELSE DescHeaderEn, Bullet \o UpperFirst(p[1])>>

\* wrapped_lines of a record whose suggestion call left response_text in
\* self.describer.response
SuggestionLines(p, response_text, mod, lang) ==
    IF mod = "qwen_description_chinese"
    THEN WrapTextLinesZh(p[1], ResponseTextZh(response_text), 25)
    ELSE WrapTextLinesEn(p[1], response_text, 40, lang)

\* the record lists of an image
SuggestRecords ==
    { << <<"w", "e", "t">>, YesToken >>, << <<"d", "o", "o", "r">>, NoToken >>,
      << <<"U5730", "U6FD5">>, ShiToken >> }

\* what the model may answer to the suggestion question
SuggestionAnswers ==
    { <<>>, PlaceholderEn, PlaceholderZh, Dots, <<"-">>, <<",">>,
      <<"f", "i", "x">>, <<"-", " ", "f", "i", "x">>, <<"U6E05", "U7406">> }

SuggestInit ==
    /\ LayoutIdle /\ TokenIdle /\ WrapIdle /\ MainIdle /\ PathIdle /\ ExtraIdle
    /\ \E c \in TokenConfigs : module = c[1] /\ language = c[2]
    /\ pc = "annotating"
    /\ response = <<>> /\ filtered = <<>>
    /\ points \in SeqUpTo(SuggestRecords, MaxRecords) \ {<<>>}
    /\ detections = [kind |-> "array", hits |-> <<>>]
    /\ enriched = points
    /\ unique_labels = {}
    /\ calls = <<>>
    /\ rendered = <<>>

\* one pass of the loop over points: outcome says whether the suggestion
\* call failed inside run_model (it then returns ""), answer what it returned
AnnotatePoint(outcome, answer) ==
    /\ pc = "annotating"
    /\ Len(calls) < Len(points)
    /\ LET p == points[Len(calls) + 1]
           res == IF IsYes(p) THEN SuggestionLines(p, answer, module, language)
                  ELSE [hang |-> FALSE, lines |-> DescriptionOnlyLines(p, module, language)]
       IN  /\ outcome = "none" <=> ~IsYes(p)
           /\ outcome # "answered" => answer = <<>>
           /\ calls' = Append(calls, [outcome |-> outcome, answer |-> answer])
           /\ rendered' = IF res.hang THEN rendered ELSE Append(rendered, res.lines)
           /\ pc' = IF res.hang THEN "hung"
                    ELSE IF Len(calls) + 1 = Len(points) THEN "annotated" ELSE "annotating"
    /\ UNCHANGED <<module, response, filtered, points, engineVars, layoutVars, tokenVars,
                   wrapVars, mainVars, pathVars, extraVars>>

SuggestNext ==
    \E outcome \in {"none", "failed", "answered"}, answer \in SuggestionAnswers :
        AnnotatePoint(outcome, answer)

SuggestSpec == SuggestInit /\ [][SuggestNext]_vars

\* the lines of a record's block that follow its suggestion header
SuggestionPart(ls) ==
    LET hs == {i \in 1..Len(ls) : ls[i] \in {SuggHeaderEn, SuggHeaderZh}}
    IN  IF hs = {} THEN <<>>
        ELSE SubSeq(ls, (CHOOSE i \in hs : \A j \in hs : j <= i) + 1, Len(ls))

\* the fixed fallback suggestions
FallbackPhrases == {FallbackEn, DefaultSuggestionZh, CallerDefaultZh}

\* a block that shows a fallback suggestion: its words are on one line in the
\* budgets the loop uses
ShowsFallback(ls) ==
    \E i \in 1..Len(SuggestionPart(ls)) : \E f \in FallbackPhrases :
        Contains(SuggestionPart(ls)[i], f)

\* C11: a record whose suggestion call failed, or was answered with nothing
\* or with a placeholder, is drawn with the fixed fallback suggestion, and the
\* records after it are drawn too.
C11_SuggestionFallback ==
    /\ \A k \in 1..Len(calls) :
          (calls[k].outcome = "failed" \/
           (calls[k].outcome = "answered" /\ IsPlaceholder(calls[k].answer))) =>
               k <= Len(rendered) /\ ShowsFallback(rendered[k])
    /\ pc = "annotated" => Len(rendered) = Len(points)

---------------------------------------------------------------------------
(* TextSpec: self.ai_text of one QwenDescriber over _annotate_image calls  *)
(* on one image after the other                                            *)

MaxCalls == 2

\* the answers to the suggestion question in these calls
TextAnswers == { <<>>, <<"f", "i", "x">>, PlaceholderEn }

\* a faulty variant: only the lines of the last block are kept
AiTextOfLastBlock(blocks) ==
    IF blocks = <<>> THEN <<>> ELSE Join(blocks[Len(blocks)] \o << <<>> >>, <<"\n">>)

\* lines 456-457 and 627: text_lines takes the wrapped_lines of each block
\* and an empty line, and ai_text is "\n".join(text_lines)
AiText(blocks) ==
    Join(Concat([k \in 1..Len(blocks) |-> blocks[k] \o << <<>> >>]), <<"\n">>)

\* qwen_description.py line 30, then lines 384-418 of the first call: the
\* image is loaded and the loop is about to start
TextInit ==
    /\ LayoutIdle /\ TokenIdle /\ WrapIdle /\ PathIdle /\ ExtraIdle
    /\ module = "qwen_description"
    /\ language \in {"english", "chinese"}
    /\ points \in SeqUpTo(SuggestRecords, MaxRecords)
    /\ pc = IF points = <<>> THEN "annotated" ELSE "annotating"
    /\ response = <<>> /\ filtered = <<>>
    /\ detections = [kind |-> "array", hits |-> <<>>]
    /\ enriched = points
    /\ unique_labels = {}
    /\ calls = <<>>
    /\ rendered = <<>>
    /\ caller = "image_description"
    /\ attempted = 1
    /\ processed_count = 0 /\ failed_count = 0
    /\ processed_urls = {} /\ posts = <<>> /\ failure = "none"
    /\ ai_text = <<>>

\* lines 604-630: the image is saved and ai_text set, or img.save raises
SaveImage(saved) ==
    /\ pc = "annotated"
    /\ ai_text' = IF saved THEN AiText(rendered) ELSE ai_text
    /\ pc' = IF saved THEN "returned" ELSE "raised"
    /\ UNCHANGED <<module, response, filtered, points, engineVars, layoutVars, tokenVars,
                   wrapVars, suggestVars, caller, attempted, processed_count, failed_count,
                   processed_urls, posts, failure, pathVars, extraVars>>

\* the next call of _annotate_image, lines 384-418: the image cannot be
\* opened and the call raises, or ai_text is emptied and the loop starts
NextImage(pts, loaded) ==
    /\ pc \in {"returned", "raised"}
    /\ attempted < MaxCalls
    /\ attempted' = attempted + 1
    /\ points' = pts
    /\ enriched' = pts
    /\ calls' = <<>>
    /\ rendered' = <<>>
    /\ ai_text' = IF loaded THEN <<>> ELSE ai_text
    /\ pc' = IF ~loaded THEN "raised"
             ELSE IF pts = <<>> THEN "annotated" ELSE "annotating"
    /\ UNCHANGED <<module, response, filtered, language, detections, unique_labels,
                   layoutVars, tokenVars, wrapVars, caller, processed_count, failed_count,
                   processed_urls, posts, failure, pathVars, extraVars>>

TextNext ==
    \/ \E outcome \in {"none", "failed", "answered"}, answer \in TextAnswers :
          AnnotatePoint(outcome, answer)
    \/ \E saved \in BOOLEAN : SaveImage(saved)
    \/ \E pts \in SeqUpTo(SuggestRecords, MaxRecords), loaded \in BOOLEAN :
          NextImage(pts, loaded)

TextSpec == TextInit /\ [][TextNext]_vars

\* the display lines of the blocks drawn in the call, in placement order
DisplayLines == Concat(rendered)

\* the lines of a text that are not empty
TextLines(t) == SelectSeq(SplitOn(t, "\n"), LAMBDA l : l # <<>>)

\* C21: after a call that returned, ai_text is made of the display lines of
\* the blocks drawn for that image, in placement order, and of nothing else;
\* after a call that raised it is not the text of some of the blocks of the
\* image that failed.
C21_AiTextOfThisImage ==
    /\ pc = "returned" => TextLines(ai_text) = DisplayLines
    /\ pc = "raised" =>
           \A k \in 1..Len(rendered) : ai_text # AiText(SubSeq(rendered, 1, k))

C21_Witness ==
    /\ pc = "returned"
    /\ attempted = 2
    /\ Len(rendered) = 2
    /\ \E k \in 1..2 : calls[k].outcome = "answered"

---------------------------------------------------------------------------
(* PathSpec: the end of _annotate_image, where the output path is worked   *)
(* out, the image saved and a path returned                                *)

\* s.startswith(p)
StartsWith(s, p) == Len(p) <= Len(s) /\ SubSeq(s, 1, Len(p)) = p

\* image_path.startswith(('http://', 'https://'))
IsUrl(p) == StartsWith(p, <<"h", "t", "t", "p", ":", "/", "/">>) \/ StartsWith(p, <<"h", "t", "t", "p", "s", ":", "/", "/">>)

\* the index of the last c in s, 0 when there is none
LastIndex(s, c) ==
    IF \A i \in 1..Len(s) : s[i] # c THEN 0
    ELSE CHOOSE k \in 1..Len(s) : s[k] = c /\ \A j \in (k + 1)..Len(s) : s[j] # c

\* filename.rsplit('.', 1)
RSplitDot(filename) ==
    IF LastIndex(filename, ".") = 0 THEN <<filename>>
    ELSE <<SubSeq(filename, 1, LastIndex(filename, ".") - 1),
           SubSeq(filename, LastIndex(filename, ".") + 1, Len(filename))>>

\* a faulty variant: the name of the input is the name of the output
OutputFilenameUnchanged(filename) == filename

\* lines 578-582 and 586-590: "_annotated" goes in front of the extension
OutputFilename(filename) ==
    LET name_parts == RSplitDot(filename)
    IN  IF Len(name_parts) = 2
        THEN name_parts[1] \o <<"_", "a", "n", "n", "o", "t", "a", "t", "e", "d">> \o <<".">> \o name_parts[2]
        ELSE filename \o <<"_", "a", "n", "n", "o", "t", "a", "t", "e", "d">> \o <<".", "j", "p", "g">>

\* Path(image_path).name for a relative path without "." or ".." parts
PathName(p) ==
    LET parts == SelectSeq(SplitOn(p, "/"), LAMBDA x : x # <<>>)
    IN  IF parts = <<>> THEN <<>> ELSE parts[Len(parts)]

\* now.strftime('%Y%m%d_%H%M%S')
Timestamp(t) == t.year \o t.month \o t.day \o <<"_">> \o t.hour \o t.minsec

\* lines 569-576: the file name taken from a URL, or one made of the time
UrlFilename(p, t) ==
    LET url_parts == SplitOn(p, "/")
        last == url_parts[Len(url_parts)]
        filename == SplitOn(IF last # <<>> THEN last ELSE <<"i", "m", "a", "g", "e">>, "?")[1]
    IN  IF ~Contains(filename, <<".">>) \/ Len(filename) < 5
        THEN <<"i", "m", "a", "g", "e", "_">> \o Timestamp(t) \o <<".", "j", "p", "g">>
        ELSE filename

\* year/month/day/hour/images under a root directory
Partition(root, t) ==
    Join(<<root, t.year, t.month, t.day, t.hour, <<"i", "m", "a", "g", "e", "s">>>>, <<"/">>)

\* lines 552-601: [output_path, return_path] for a call
OutputPaths(p, given, t) ==
    IF given = None
    THEN LET output_filename == OutputFilename(IF IsUrl(p) THEN UrlFilename(p, t)
                                               ELSE PathName(p))
         IN  [output_path |-> Partition(<<"o", "u", "t", "p", "u", "t">>, t) \o <<"/">> \o output_filename,
              return_path |-> Partition(<<"A", "I">>, t) \o <<"/">> \o output_filename]
    ELSE [output_path |-> given[1], return_path |-> given[1]]

\* the images _annotate_image is called on
ImagePaths ==
    { <<"p", "i", "c", "0", "1", ".", "p", "n", "g">>,
      <<"i", "n", "/", "a", ".", "b", ".", "j", "p", "g">>,
      <<"p", "h", "o", "t", "o">>,
      <<"s", "c", "a", "n", ".">>,
      <<"h", "t", "t", "p", ":", "/", "/", "h", "/", "p", "i", "c", "0", "1", ".", "j", "p", "g">>,
      <<"h", "t", "t", "p", "s", ":", "/", "/", "h", "/", "p", "/", "p", "i", "c", "0", "1", ".", "j", "p", "e", "g", "?", "s", "=", "1">>,
      <<"h", "t", "t", "p", ":", "/", "/", "h", "/", "a", ".", "p", "n">>,
      <<"h", "t", "t", "p", ":", "/", "/", "h", "/", "p", "h", "o", "t", "o">>,
      <<"h", "t", "t", "p", ":", "/", "/", "h", "/", "d", "/">>,
      <<"h", "t", "t", "p", ":", "/", "/", "h", "/", "a", ".", "j", "p", "g", "?", "k", "=", "x", "/", "y", "y", ".", "p", "n", "g">> }

\* the output paths a caller gives
GivenPaths == { <<"o", "u", "t", "/", "x", ".", "j", "p", "g">>, <<"r">> }

\* what datetime.now() may read
Clock ==
    [year : {<<"2", "0", "2", "5">>}, month : {<<"0", "1">>, <<"1", "2">>}, day : {<<"0", "1">>, <<"3", "1">>},
     hour : {<<"0", "0">>, <<"2", "3">>}, minsec : {<<"0", "0", "0", "0">>, <<"5", "9", "5", "9">>}]

PathInit ==
    /\ LayoutIdle /\ TokenIdle /\ WrapIdle /\ SuggestIdle /\ MainIdle /\ ExtraIdle
    /\ \E c \in TokenConfigs : module = c[1] /\ language = c[2]
    /\ pc = "drawn"
    /\ response = <<>> /\ filtered = <<>> /\ points = <<>>
    /\ detections = [kind |-> "array", hits |-> <<>>]
    /\ enriched = <<>>
    /\ unique_labels = {}
    /\ image_path \in ImagePaths
    /\ output_path \in {None} \cup {<<g>> : g \in GivenPaths}
    /\ now \in Clock
    /\ written_path = <<>>
    /\ return_path = <<>>

\* lines 604-630: img.save(output_path) goes well and the path is returned
AnnotateSaves ==
    /\ pc = "drawn"
    /\ written_path' = <<OutputPaths(image_path, output_path, now).output_path>>
    /\ return_path' = <<OutputPaths(image_path, output_path, now).return_path>>
    /\ pc' = "returned"
    /\ UNCHANGED <<module, response, filtered, points, engineVars, layoutVars, tokenVars,
                   wrapVars, suggestVars, mainVars, image_path, output_path, now, extraVars>>

\* lines 620-624: img.save raises and the exception goes to the caller
AnnotateSaveFails ==
    /\ pc = "drawn"
    /\ pc' = "raised"
    /\ UNCHANGED <<module, response, filtered, points, engineVars, layoutVars, tokenVars,
                   wrapVars, restVars>>

PathNext == AnnotateSaves \/ AnnotateSaveFails

PathSpec == PathInit /\ [][PathNext]_vars

\* the text of the input path after its last "/", a query string cut off
OriginalName ==
    LET tail == SubSeq(image_path, LastIndex(image_path, "/") + 1, Len(image_path))
    IN  IF IsUrl(image_path) THEN SplitOn(tail, "?")[1] ELSE tail

\* a name up to its last ".", and what follows that "."
Stem(name) ==
    IF LastIndex(name, ".") = 0 THEN name ELSE SubSeq(name, 1, LastIndex(name, ".") - 1)
Ext(name) ==
    IF LastIndex(name, ".") = 0 THEN <<>> ELSE SubSeq(name, LastIndex(name, ".") + 1, Len(name))

\* the directory of a path and the file name in it
DirOf(p) == SubSeq(p, 1, LastIndex(p, "/") - 1)
NameOf(p) == SubSeq(p, LastIndex(p, "/") + 1, Len(p))

\* the written and the returned path lie in the partition of the time read,
\* under "output" and under "AI", and have the same file name
SamePartition ==
    /\ DirOf(written_path[1]) = Partition(<<"o", "u", "t", "p", "u", "t">>, now)
    /\ DirOf(return_path[1]) = Partition(<<"A", "I">>, now)
    /\ NameOf(written_path[1]) = NameOf(return_path[1])

\* C18: without an output path from the caller the file is named
\* <original-stem>_annotated.<ext>, is written under
\* output/YYYY/MM/DD/HH/images/ and is returned as
\* AI/YYYY/MM/DD/HH/images/<filename>, same partition and same name; with an
\* output path from the caller the returned path is the written path.
C18_OutputPath ==
    pc = "returned" =>
        IF output_path = None
        THEN /\ SamePartition
             /\ StartsWith(NameOf(written_path[1]), Stem(OriginalName) \o <<"_", "a", "n", "n", "o", "t", "a", "t", "e", "d">> \o <<".">>)
             /\ Ext(OriginalName) # <<>> =>
                    NameOf(written_path[1]) = Stem(OriginalName) \o <<"_", "a", "n", "n", "o", "t", "a", "t", "e", "d">> \o <<".">> \o Ext(OriginalName)
        ELSE return_path = written_path

\* the name the output name is made from: for a URL whose name has no "." or
\* fewer than five characters it is image_<YYYYmmdd_HHMMSS>.jpg
NamedAfter ==
    IF IsUrl(image_path) /\ (LastIndex(OriginalName, ".") = 0 \/ Len(OriginalName) < 5)
    THEN <<"i", "m", "a", "g", "e", "_">> \o Timestamp(now) \o <<".", "j", "p", "g">>
    ELSE OriginalName

\* C18, amended: as C18, the file name being <stem>_annotated.<ext> of the
\* input's name, with "jpg" for a name without ".", and of
\* image_<timestamp>.jpg for a URL whose name has no "." or is shorter than
\* five characters; with an output path from the caller the file is written
\* there and that path is returned.
C18_OutputPathAmended ==
    pc = "returned" =>
        IF output_path = None
        THEN /\ SamePartition
             /\ NameOf(written_path[1]) =
                    Stem(NamedAfter) \o <<"_", "a", "n", "n", "o", "t", "a", "t", "e", "d">> \o <<".">> \o
                    (IF LastIndex(NamedAfter, ".") # 0 THEN Ext(NamedAfter) ELSE <<"j", "p", "g">>)
        ELSE return_path = written_path /\ written_path = output_path

C18_Witness ==
    /\ pc = "returned"
    /\ output_path = None
    /\ IsUrl(image_path)
    /\ NamedAfter # OriginalName
    /\ now.hour = <<"2", "3">>

---------------------------------------------------------------------------
(* MainSpec: the per-image loop of main() in image_description.py and in   *)
(* image_description_chinese_local.py, around process_and_annotate         *)

MaxImages == 2

Callers == {"image_description", "image_description_chinese_local",
            "image_description_chinese_local --post-to-server"}

\* the model calls of process_and_annotate that may fail: run_model catches
\* the exception and returns ""
Failures == {"none", "describer", "filter", "detector"}

\* what the detector may answer in this loop
MainDetectorOutcomes ==
    {[kind |-> "array", hits |-> <<>>],
     [kind |-> "array", hits |-> <<"alarm light">>],
     [kind |-> "array", hits |-> <<"bag left unattended", "alarm light", "alarm light">>],
     [kind |-> "array", hits |-> <<"alarm light", NullLabel>>],
     [kind |-> "no bbox", hits |-> <<>>],
     [kind |-> "no json", hits |-> <<>>]}

\* the observation text of an image
MainResponse == Txt(<< <<"a", ",", " ", "y", "e", "s">>, <<"b", ",", " ", "n", "o">> >>)

\* self.describer.response after the observation call
ObservedText(fail) == IF fail = "describer" THEN <<>> ELSE MainResponse

\* what the detector's answer decodes to: the filter call that failed leaves
\* no list, so the detector is not run and its response is "[]"; the detector
\* call that failed leaves ""
Decoded(fail, det) ==
    IF fail = "filter" THEN [kind |-> "array", hits |-> <<>>]
    ELSE IF fail = "detector" THEN [kind |-> "no json", hits |-> <<>>]
    ELSE det

\* "for label in describer.unique_labels": the set in some order
RECURSIVE InSomeOrder(_)
InSomeOrder(S) ==
    IF S = {} THEN <<>>
    ELSE LET x == CHOOSE y \in S : TRUE IN <<x>> \o InSomeOrder(S \ {x})

GenericType == "ai_description"

\* the POSTs main() of image_description.py attempts for an image
PostsFor(image, labels, path, text, oks) ==
    IF labels = {}
    THEN << [image |-> image, model_type |-> GenericType, image_path |-> path,
             aiText |-> text, ok |-> oks[GenericType]] >>
    ELSE [k \in 1..Cardinality(labels) |->
            [image |-> image, model_type |-> InSomeOrder(labels)[k], image_path |-> path,
             aiText |-> text, ok |-> oks[InSomeOrder(labels)[k]]]]

\* a faulty variant: an image that raised is not counted
FailedAfterNever(count, raised) == count

\* line 249: failed_count += 1 in the except clause
FailedAfter(count, raised) == IF raised THEN count + 1 ELSE count

\* lines 190-191
ProcessedAfter(count, raised) == IF raised THEN count ELSE count + 1

MainInit ==
    /\ LayoutIdle /\ TokenIdle /\ WrapIdle /\ SuggestIdle /\ PathIdle /\ ExtraIdle
    /\ caller \in Callers
    /\ module = IF caller = "image_description" THEN "qwen_description"
                ELSE "qwen_description_chinese"
    /\ language \in IF caller = "image_description" THEN {"english", "chinese"} ELSE {"chinese"}
    /\ pc = "loop"
    /\ response = <<>> /\ filtered = <<>> /\ points = <<>>
    /\ detections = [kind |-> "array", hits |-> <<>>]
    /\ enriched = <<>>
    /\ unique_labels = {}
    /\ attempted = 0
    /\ processed_count = 0
    /\ failed_count = 0
    /\ processed_urls = {}
    /\ posts = <<>>
    /\ failure = "none"
    /\ ai_text = 0


\* how _annotate_image may end: the file is written, the image cannot be
\* opened (lines 389-398), or img.save raises (lines 609-624)
AnnotateOutcomes == {"saved", "not loaded", "not saved"}

PostTypes == Labels \cup {GenericType, NullLabel}

\* what post_json_data returns for each POST of an image (lines 40-48)
PostOutcomes ==
    {[t \in PostTypes |-> TRUE], [t \in PostTypes |-> FALSE],
     [t \in PostTypes |-> t = "alarm light"]}

\* one iteration of the loop of image_description.py, lines 182-249
ProcessImage(fail, det, annot, oks) ==
    /\ caller = "image_description"
    /\ pc \in {"loop", "returned", "raised"}
    /\ attempted < MaxImages
    /\ LET image == attempted + 1
           parsed == ExtractPoints(ObservedText(fail))
           e == Enrich(parsed, Decoded(fail, det), language, unique_labels)
           raised == annot # "saved"
       IN  /\ annot = "not loaded" => e.points = parsed
           /\ attempted' = image
           /\ failure' = fail
           /\ response' = ObservedText(fail)
           /\ filtered' = ObservedText(fail)
           /\ detections' = Decoded(fail, det)
           /\ enriched' = e.points
           /\ unique_labels' = e.labels
           /\ points' = SortPoints(e.points, module, language)
           /\ ai_text' = CASE annot = "saved" -> image
                           [] annot = "not saved" -> 0
                           [] OTHER -> ai_text
           /\ processed_count' = ProcessedAfter(processed_count, raised)
           /\ failed_count' = FailedAfter(failed_count, raised)
           /\ processed_urls' = IF raised THEN processed_urls ELSE processed_urls \cup {image}
           /\ posts' = IF raised THEN posts
                       ELSE posts \o PostsFor(image, e.labels, image, image, oks)
           /\ pc' = IF raised THEN "raised" ELSE "returned"
    /\ UNCHANGED <<caller, module, language, layoutVars, tokenVars, wrapVars,
                   suggestVars, pathVars, extraVars>>


\* what the object question of the Chinese class may be answered with
\* ("" also when the model call failed)
ObjectResponses ==
    { <<>>,
      Txt(<< <<"p", ",", " ", "U662F">>, <<"q", ",", " ", "U5426">> >>),
      Txt(<< <<"p", ",", " ", "y", "e", "s">> >>) }

\* qwen_description_chinese.py lines 306-312: a record for each object the
\* answer calls visible
ObjectRecords(objs) ==
    LET seen == SelectSeq(ExtractPoints(objs), LAMBDA o : IsYes(o))
    IN  [k \in 1..Len(seen) |-> << <<"U6AA2", "U6E2C", "U5230">> \o seen[k][1], FouToken >>]

\* the command lines of image_description_chinese_local.py: with
\* --post-to-server or without
LocalCallers == {"image_description_chinese_local",
                 "image_description_chinese_local --post-to-server"}

\* one iteration of the loop of image_description_chinese_local.py,
\* lines 226-278
ProcessLocalImage(fail, objs, annot, ok) ==
    /\ caller \in LocalCallers
    /\ pc \in {"loop", "returned", "raised"}
    /\ attempted < MaxImages
    /\ fail \in {"none", "describer", "filter"}
    /\ fail = "filter" => objs = <<>>
    /\ LET image == attempted + 1
           text == FilterSecurityResponse(ObservedText(fail))
           found == ExtractPoints(text) \o ObjectRecords(objs)
           raised == annot # "saved"
       IN  /\ attempted' = image
           /\ failure' = fail
           /\ response' = ObservedText(fail)
           /\ filtered' = text
           /\ enriched' = found
           /\ points' = SortPoints(found, module, language)
           /\ processed_count' = ProcessedAfter(processed_count, raised)
           /\ failed_count' = FailedAfter(failed_count, raised)
           /\ posts' = IF raised \/ caller = "image_description_chinese_local" THEN posts
                       ELSE Append(posts, [image |-> image, model_type |-> GenericType,
                                           image_path |-> image, aiText |-> 0, ok |-> ok])
           /\ pc' = IF raised THEN "raised" ELSE "returned"
    /\ UNCHANGED <<caller, module, language, detections, unique_labels, processed_urls,
                   ai_text, layoutVars, tokenVars, wrapVars, suggestVars, pathVars, extraVars>>

\* the loop is over: lines 251-256 of image_description.py (the processed
\* set is saved as it stands), lines 280 on of the local script
LoopEnds ==
    /\ pc \in {"returned", "raised"}
    /\ pc' = "exited"
    /\ UNCHANGED <<module, response, filtered, points, engineVars, layoutVars, tokenVars,
                   wrapVars, restVars>>

MainNext ==
    \/ \E fail \in Failures, det \in MainDetectorOutcomes, annot \in AnnotateOutcomes,
          oks \in PostOutcomes : ProcessImage(fail, det, annot, oks)
    \/ \E fail \in Failures, objs \in ObjectResponses, annot \in AnnotateOutcomes,
          ok \in BOOLEAN : ProcessLocalImage(fail, objs, annot, ok)
    \/ LoopEnds

MainSpec == MainInit /\ [][MainNext]_vars


\* the POSTs attempted for the image the loop took up last
PostsOfLast == SelectSeq(posts, LAMBDA p : p.image = attempted)

\* C12: when the observation call or the detector call of
\* process_and_annotate fails, the call raises: the image gets no annotated
\* output and the caller does not count it as processed.
C12_ModelFailureAborts ==
    (pc \in {"returned", "raised"} /\ failure \in {"describer", "detector"}) =>
        /\ pc = "raised"
        /\ attempted \notin processed_urls
        /\ PostsOfLast = <<>>

\* C17: for an annotated image, image_description.py attempts one POST per
\* label detected in that image, the label as model_type, or one POST of
\* model_type "ai_description" when the image has no detected label; each of
\* them carries that image's path and that image's AI text.
C17_OnePostPerLabel ==
    (caller = "image_description" /\ pc = "returned") =>
        /\ Len(PostsOfLast) = IF DistinctLabels = {} THEN 1 ELSE Cardinality(DistinctLabels)
        /\ {PostsOfLast[k].model_type : k \in 1..Len(PostsOfLast)} =
               IF DistinctLabels = {} THEN {GenericType} ELSE DistinctLabels
        /\ \A k \in 1..Len(PostsOfLast) :
               PostsOfLast[k].image_path = attempted /\ PostsOfLast[k].aiText = attempted

\* a step of the loop in which process_and_annotate raised
RaisedStep == attempted' = attempted + 1 /\ pc' = "raised"

\* C19: an image for which process_and_annotate raises is counted as failed,
\* is not added to the processed set and gets no POST; the step the loop takes
\* after it, unless the list is over, takes up the next image; and
\* processed_count + failed_count is the number of images attempted.
C19_FailureAccounting ==
    /\ [][RaisedStep => /\ failed_count' = failed_count + 1
                        /\ processed_count' = processed_count
                        /\ processed_urls' = processed_urls
                        /\ posts' = posts]_vars
    /\ [](processed_count + failed_count = attempted)
    /\ [][(pc = "raised" /\ pc' # "exited") => attempted' = attempted + 1]_vars

C19_Witness ==
    /\ pc = "exited"
    /\ attempted = MaxImages
    /\ failed_count >= 1
    /\ processed_count >= 1
    /\ \E k \in 1..Len(posts) : posts[k].image = attempted
    /\ \E i \in 1..attempted : \A k \in 1..Len(posts) : posts[k].image # i


---------------------------------------------------------------------------
(* AnnotatorSpec: annotate_image.py, main() and                            *)
(* ImageAnnotator.annotate_image                                           *)

MaxBoxes == 3

\* line 140
AnnotatorLineHeight == 60

\* the measured width of a text and the number of its lines
TextSizes == [width : {100, 300}, lines : {1, 2}]

\* the positions given with -p
GivenPositions == {<<50, 50>>, <<600, 400>>}

\* main(), lines 264-277: the first positions go to the first texts, the
\* texts after them get position None
PrepareTextBoxes(texts, positions) ==
    [i \in 1..Len(texts) |->
        [text |-> texts[i],
         position |-> IF i <= Len(positions) THEN positions[i] ELSE None]]

\* lines 123-131: where the box of index idx is drawn
BoxPosition(box, index, auto, y) ==
    IF box.position # None THEN box.position
    ELSE IF auto THEN <<60, y>>
    ELSE <<60, 60 + index * 150>>

\* lines 154-159: background_bbox
BackgroundBbox(position, max_width, total_height) ==
    [left |-> position[1] - 40, top |-> position[2] - 40,
     right |-> position[1] + max_width + 40, bottom |-> position[2] + total_height + 25]

\* line 187
NextY(position, total_height) == position[2] + total_height + 120

AnnotatorInit ==
    /\ LayoutIdle /\ TokenIdle /\ WrapIdle /\ SuggestIdle /\ MainIdle /\ PathIdle
    /\ TraceIdle /\ LoopIdle /\ MonIdle /\ RetryIdle
    /\ module = "annotate_image"
    /\ language \in {"english"}
    /\ pc = "drawing"
    /\ response = <<>> /\ filtered = <<>> /\ points = <<>>
    /\ detections = [kind |-> "array", hits |-> <<>>]
    /\ enriched = <<>>
    /\ unique_labels = {}
    /\ \E texts \in SeqUpTo(TextSizes, MaxBoxes) \ {<<>>},
          positions \in SeqUpTo(GivenPositions, MaxBoxes) :
          /\ Len(positions) <= Len(texts)
          /\ text_boxes = PrepareTextBoxes(texts, positions)
          /\ auto_layout \in IF Len(positions) = Len(texts) THEN BOOLEAN ELSE {TRUE}
    /\ current_y = 60
    /\ panels = <<>>

\* one pass of the loop of lines 119-189
DrawBox ==
    /\ pc = "drawing"
    /\ Len(panels) < Len(text_boxes)
    /\ LET box == text_boxes[Len(panels) + 1]
           position == BoxPosition(box, Len(panels), auto_layout, current_y)
           total_height == box.text.lines * AnnotatorLineHeight
       IN  /\ panels' = Append(panels, BackgroundBbox(position, box.text.width, total_height))
           /\ current_y' = IF auto_layout /\ box.position = None
                           THEN NextY(position, total_height) ELSE current_y
    /\ UNCHANGED <<parseVars, engineVars, layoutVars, tokenVars, wrapVars, suggestVars,
                   mainVars, pathVars, text_boxes, auto_layout, traceVars, loopVars,
                   monVars, retryVars>>

\* lines 191-211: the loop is over, the image is saved
AnnotatorSaves ==
    /\ pc = "drawing"
    /\ Len(panels) = Len(text_boxes)
    /\ pc' = "returned"
    /\ UNCHANGED <<module, response, filtered, points, engineVars, layoutVars, tokenVars,
                   wrapVars, restVars>>

AnnotatorNext == DrawBox \/ AnnotatorSaves

AnnotatorSpec == AnnotatorInit /\ [][AnnotatorNext]_vars

\* C22: with auto-layout on, the panel of a box without a position of its own
\* overlaps the panel of no box drawn before it, whether that box had a
\* position of its own or not.
C22_AutoBoxesBelowEarlier ==
    auto_layout =>
        \A j \in 1..Len(panels) : text_boxes[j].position = None =>
            \A i \in 1..(j - 1) : ~Overlap(panels[i], panels[j])

---------------------------------------------------------------------------
(* FilterSpec: _filter_security_response of qwen_description_chinese.py on  *)
(* every response of at most MaxLines lines of the set below               *)

MaxLines == 2

KeptLine == <<"a", ",", "n", "o">>
PaddedLine == <<" ", "b", " ">>
GateNotVisible == <<"g", "a", "t", "e", " ", "n", "o", "t", " ", "v", "i", "s", "i", "b", "l", "e", ",", "n", "o">>
NoVisible == <<"n", "o", " ", "v", "i", "s", "i", "b", "l", "e", " ", "c">>
VisibleGate == <<"v", "i", "s", "i", "b", "l", "e", " ", "g", "a", "t", "e", ",", "y", "e", "s">>
NoEmergencyExit == <<"N", "o", " ", "e", "m", "e", "r", "g", "e", "n", "c", "y", " ", "e", "x", "i", "t">>

FilterLines == {<<>>, KeptLine, PaddedLine, GateNotVisible, NoVisible, VisibleGate,
                NoEmergencyExit, DoorPhrase}

FilterTexts == {Join(ls, <<"\n">>) : ls \in SeqUpTo(FilterLines, MaxLines)}

FilterInit ==
    /\ WrapIdle
    /\ RestIdle
    /\ EngineIdle
    /\ LayoutIdle
    /\ TokenIdle
    /\ module = "qwen_description_chinese"
    /\ pc = "start"
    /\ response \in FilterTexts
    /\ filtered = <<>>
    /\ points = <<>>

FilterSpec == FilterInit /\ [][ParseNext]_vars

\* line.lower(), on the letters of FilterLines
LowerLine(line) == [i \in 1..Len(line) |-> LowerChar(line[i])]

\* the lines the docstring of _filter_security_response says are removed;
\* DoorPhrase, the one phrase the code looks for, is "no visible door" in
\* Chinese and is counted with "no visible"
DocstringRemoves(line) ==
    LET low == LowerLine(line)
    IN  \/ Contains(low, DoorPhrase)
        \/ Contains(low, <<"n", "o", " ", "v", "i", "s", "i", "b", "l", "e">>)
        \/ Contains(low, <<"n", "o", "t", " ", "v", "i", "s", "i", "b", "l", "e">>)
        \/ Contains(low, <<"g", "a", "t", "e">>) /\ Contains(low, <<"v", "i", "s", "i", "b", "l", "e">>)
        \/ Contains(low, <<"n", "o", " ", "e", "m", "e", "r", "g", "e", "n", "c", "y", " ", "e", "x", "i", "t">>)

\* the trimmed non-empty lines of a text, in order
TrimmedLines(text) ==
    LET all_lines == SplitLines(text)
    IN  SelectSeq([i \in 1..Len(all_lines) |-> Strip(all_lines[i])], LAMBDA l : l # <<>>)

\* C26: the filter returns the trimmed non-empty lines of its input, in
\* order, without the lines the docstring says are removed ("no visible" or
\* "not visible", both "gate" and "visible", "no emergency exit") and with
\* every other line unchanged; filtering the result again changes nothing.
C26_FilterAsDocumented ==
    pc = "parsed" =>
        /\ filtered = Join(SelectSeq(TrimmedLines(response),
                                     LAMBDA l : ~DocstringRemoves(l)), <<"\n">>)
        /\ FilterSecurityResponse(filtered) = filtered

---------------------------------------------------------------------------
(* StageSpec: one call of process_and_annotate of qwen_description.py,     *)
(* statement by statement, with the stages it goes through written to     *)
(* trace                                                                   *)

Stage(name, k) == [stage |-> name, record |-> k]

\* the records the for loop of _annotate_image is done with
Done == Cardinality({i \in 1..Len(trace) : trace[i].stage = "compositing"})

\* a faulty variant: every record that is not description-only gets a call
NeedsSuggestionNotNo(p) == ~IsDescriptionOnly(p)

\* line 427: the records the loop makes the suggestion call for
NeedsSuggestion(p) == IsYes(p)

StageInit ==
    /\ WrapIdle
    /\ RestIdle
    /\ LayoutIdle
    /\ TokenIdle
    /\ module = "qwen_description"
    /\ language \in {"english", "chinese"}
    /\ pc = "constructed"
    /\ response = <<>>
    /\ filtered = <<>>
    /\ points = <<>>
    /\ detections = [kind |-> "array", hits |-> <<>>]
    /\ enriched = <<>>
    /\ unique_labels = {}

StageUnchanged ==
    UNCHANGED <<module, language, layoutVars, tokenVars, wrapVars, suggestVars, mainVars,
                pathVars, annotVars, loopVars, monVars, retryVars>>

\* lines 220-226: the observation call, then extract_points
ParsePoints(resp) ==
    /\ pc = "constructed"
    /\ response' = resp
    /\ filtered' = resp
    /\ points' = ParsedResponse[resp]
    /\ trace' = Append(trace, Stage("parsing", 0))
    /\ pc' = "parsed"
    /\ UNCHANGED <<detections, enriched, unique_labels>>
    /\ StageUnchanged

\* lines 230-350: the pre-filter call, the detector and the appended records
EnrichPoints(det) ==
    /\ pc = "parsed"
    /\ \E e \in {Enrich(points, det, language, unique_labels)} :
           /\ detections' = det
           /\ enriched' = e.points
           /\ unique_labels' = e.labels
           /\ points' = e.points
    /\ trace' = Append(trace, Stage("enrichment", 0))
    /\ pc' = "enriched"
    /\ UNCHANGED <<response, filtered>>
    /\ StageUnchanged

\* lines 352-358: points.sort
SchedulePoints ==
    /\ pc = "enriched"
    /\ points' = SortPoints(points, module, language)
    /\ trace' = Append(trace, Stage("scheduling", 0))
    /\ pc' = "scheduled"
    /\ UNCHANGED <<response, filtered, detections, enriched, unique_labels>>
    /\ StageUnchanged

\* _annotate_image, lines 368-422: the image is loaded, or the call raises
LoadImage(loaded) ==
    /\ pc = "scheduled"
    /\ pc' = IF ~loaded THEN "raised"
             ELSE IF points = <<>> THEN "annotated" ELSE "record"
    /\ UNCHANGED <<response, filtered, points, detections, enriched, unique_labels, trace>>
    /\ StageUnchanged

\* lines 427-445: the suggestion call of a record
SuggestionCall ==
    /\ pc = "record"
    /\ NeedsSuggestion(points[Done + 1])
    /\ trace' = Append(trace, Stage("suggestion", Done + 1))
    /\ pc' = "suggested"
    /\ UNCHANGED <<response, filtered, points, detections, enriched, unique_labels>>
    /\ StageUnchanged

\* lines 446-453: wrapped_lines of a record
WrapRecord ==
    /\ \/ pc = "suggested"
       \/ pc = "record" /\ ~NeedsSuggestion(points[Done + 1])
    /\ trace' = Append(trace, Stage("wrapping", Done + 1))
    /\ pc' = "wrapped"
    /\ UNCHANGED <<response, filtered, points, detections, enriched, unique_labels>>
    /\ StageUnchanged

\* lines 459-494: the size and the position of the box
LayoutRecord ==
    /\ pc = "wrapped"
    /\ trace' = Append(trace, Stage("layout", Done + 1))
    /\ pc' = "placed"
    /\ UNCHANGED <<response, filtered, points, detections, enriched, unique_labels>>
    /\ StageUnchanged

\* lines 496-549: the panel and the text are drawn, the cursor moves on
CompositeRecord ==
    /\ pc = "placed"
    /\ trace' = Append(trace, Stage("compositing", Done + 1))
    /\ pc' = IF Done + 1 = Len(points) THEN "annotated" ELSE "record"
    /\ UNCHANGED <<response, filtered, points, detections, enriched, unique_labels>>
    /\ StageUnchanged

\* lines 551-630: the image is saved, or img.save raises
SaveAnnotated(saved) ==
    /\ pc = "annotated"
    /\ pc' = IF saved THEN "returned" ELSE "raised"
    /\ UNCHANGED <<response, filtered, points, detections, enriched, unique_labels, trace>>
    /\ StageUnchanged

StageNext ==
    \/ \E resp \in EngineResponses : ParsePoints(resp)
    \/ \E det \in DetectorOutcomes : EnrichPoints(det)
    \/ SchedulePoints
    \/ \E loaded \in BOOLEAN : LoadImage(loaded)
    \/ SuggestionCall
    \/ WrapRecord
    \/ LayoutRecord
    \/ CompositeRecord
    \/ \E saved \in BOOLEAN : SaveAnnotated(saved)

StageSpec == StageInit /\ [][StageNext]_vars

\* the stages of one record, in the order the claim gives
RecordStages(ps, k) ==
    (IF Actionable(ps[k]) THEN <<Stage("suggestion", k)>> ELSE <<>>)
    \o <<Stage("wrapping", k), Stage("layout", k), Stage("compositing", k)>>

\* the stages of a whole call on the scheduled list ps
CallStages(ps) ==
    <<Stage("parsing", 0), Stage("enrichment", 0), Stage("scheduling", 0)>>
    \o Concat([k \in 1..Len(ps) |-> RecordStages(ps, k)])

\* C23: within one call the stages run in the order parsing, enrichment,
\* scheduling, then record by record wrapping, layout and compositing; one
\* suggestion call is made for each actionable record, in scheduler order,
\* and none for any other record.
C23_StagesInOrder ==
    /\ IsPrefix(trace, CallStages(points))
    /\ pc = "returned" => trace = CallStages(points)

C23_Witness ==
    /\ pc = "returned"
    /\ Len(points) = 4
    /\ IsDescriptionOnly(points[1])
    /\ Actionable(points[2]) /\ Actionable(points[4])
    /\ ~Actionable(points[3]) /\ ~IsDescriptionOnly(points[3])
    /\ SelectSeq(trace, LAMBDA s : s.stage = "suggestion")
           = <<Stage("suggestion", 2), Stage("suggestion", 4)>>

---------------------------------------------------------------------------
(* LoopSpec: one run of main() of image_description.py over the rows the   *)
(* API gave, some of them with the same picUrl                             *)

MaxRows == 3

Urls == {"u1", "u2", "u3"}

\* line 169: the items whose picUrl is not in the set loaded at the start
UnprocessedItems == SelectSeq(all_items, LAMBDA u : u \notin loaded_urls)

LoopInit ==
    /\ LayoutIdle /\ TokenIdle /\ WrapIdle /\ SuggestIdle /\ PathIdle /\ EngineIdle
    /\ AnnotIdle /\ TraceIdle /\ MonIdle /\ RetryIdle
    /\ module = "image_description"
    /\ caller = "image_description"
    /\ response = <<>> /\ filtered = <<>> /\ points = <<>>
    /\ all_items \in SeqUpTo(Urls, MaxRows)
    /\ loaded_urls \in SUBSET Urls
    /\ processed_urls = loaded_urls
    /\ invoked = <<>>
    /\ pc = IF UnprocessedItems = <<>> THEN "exited" ELSE "loop"
    /\ attempted = 0
    /\ processed_count = 0
    /\ failed_count = 0
    /\ posts = <<>>
    /\ failure = "none"
    /\ ai_text = 0

\* lines 181-249: one pass of the for loop; ok says whether
\* process_and_annotate returned
ProcessItem(ok) ==
    /\ pc = "loop"
    /\ attempted < Len(UnprocessedItems)
    /\ LET url == UnprocessedItems[attempted + 1]
       IN  /\ invoked' = Append(invoked, [url |-> url, ok |-> ok])
           /\ processed_urls' = IF ok THEN processed_urls \cup {url} ELSE processed_urls
    /\ attempted' = attempted + 1
    /\ processed_count' = IF ok THEN processed_count + 1 ELSE processed_count
    /\ failed_count' = IF ok THEN failed_count ELSE failed_count + 1
    /\ UNCHANGED <<parseVars, engineVars, layoutVars, tokenVars, wrapVars, suggestVars,
                   caller, posts, failure, ai_text, pathVars, annotVars, traceVars,
                   all_items, loaded_urls, monVars, retryVars>>

\* lines 251-256: save_processed_list and exit
SaveProcessedList ==
    /\ pc = "loop"
    /\ attempted = Len(UnprocessedItems)
    /\ pc' = "exited"
    /\ UNCHANGED <<module, response, filtered, points, engineVars, layoutVars, tokenVars,
                   wrapVars, restVars>>

LoopNext ==
    \/ \E ok \in BOOLEAN : ProcessItem(ok)
    \/ SaveProcessedList

LoopSpec == LoopInit /\ [][LoopNext]_vars

\* C28: within one run process_and_annotate is called at most once for each
\* distinct URL and never for a URL of the processed set loaded at the start,
\* also when rows hold the same picUrl more than once; the processed set only
\* grows, and only by URLs whose annotation succeeded.
C28_OncePerUrl ==
    /\ \A i, j \in 1..Len(invoked) : i # j => invoked[i].url # invoked[j].url
    /\ \A i \in 1..Len(invoked) : invoked[i].url \notin loaded_urls
    /\ loaded_urls \subseteq processed_urls
    /\ processed_urls \ loaded_urls
           \subseteq {invoked[i].url : i \in {k \in 1..Len(invoked) : invoked[k].ok}}

---------------------------------------------------------------------------
(* MonitorSpec: ClockOutReader.start_monitoring and stop_monitoring called *)
(* one after the other, and the _monitor_loop threads they start           *)

MaxThreads == 3

\* where a _monitor_loop thread is: at the while test, in
\* get_clockout_list, in time.sleep, or past the loop; stopped notes that
\* stop_monitoring was called while the thread was alive
NewThread == [at |-> "check", stopped |-> FALSE]

MonitorInit ==
    /\ LayoutIdle /\ TokenIdle /\ WrapIdle /\ SuggestIdle /\ MainIdle /\ PathIdle
    /\ EngineIdle /\ AnnotIdle /\ TraceIdle /\ LoopIdle /\ RetryIdle
    /\ module = "image_get"
    /\ pc = "idle"
    /\ response = <<>> /\ filtered = <<>> /\ points = <<>>
    /\ running = FALSE
    /\ thread = None
    /\ threads = <<>>

MonitorUnchanged ==
    UNCHANGED <<module, response, filtered, points, engineVars, layoutVars, tokenVars,
                wrapVars, suggestVars, mainVars, pathVars, annotVars, traceVars, loopVars,
                retryVars>>

\* start_monitoring, lines 420-431
StartMonitoring ==
    /\ pc = "idle"
    /\ ~running
    /\ Len(threads) < MaxThreads
    /\ running' = TRUE
    /\ threads' = Append(threads, NewThread)
    /\ thread' = Some(Len(threads) + 1)
    /\ UNCHANGED pc
    /\ MonitorUnchanged

\* stop_monitoring, lines 433-443: up to the join
StopMonitoring ==
    /\ pc = "idle"
    /\ running
    /\ running' = FALSE
    /\ threads' = [t \in 1..Len(threads) |->
                      IF threads[t].at # "ended"
                      THEN [threads[t] EXCEPT !.stopped = TRUE] ELSE threads[t]]
    /\ pc' = "joining"
    /\ UNCHANGED thread
    /\ MonitorUnchanged

\* self.thread.join(timeout=5) returns: the thread has ended, or five
\* seconds have passed with the thread in its request or in its sleep
JoinReturns(timed_out) ==
    /\ pc = "joining"
    /\ IF timed_out THEN threads[thread[1]].at \in {"polling", "sleeping"}
                    ELSE threads[thread[1]].at = "ended"
    /\ pc' = "idle"
    /\ UNCHANGED monVars
    /\ MonitorUnchanged

\* line 407: while self.running
LoopTest(t) ==
    /\ threads[t].at = "check"
    /\ threads' = [threads EXCEPT ![t].at = IF running THEN "polling" ELSE "ended"]
    /\ UNCHANGED <<pc, running, thread>>
    /\ MonitorUnchanged

\* lines 408-417: get_clockout_list and the update of the URL lists
Poll(t) ==
    /\ threads[t].at = "polling"
    /\ threads' = [threads EXCEPT ![t].at = "sleeping"]
    /\ UNCHANGED <<pc, running, thread>>
    /\ MonitorUnchanged

\* line 418: time.sleep(interval) returns
Wake(t) ==
    /\ threads[t].at = "sleeping"
    /\ threads' = [threads EXCEPT ![t].at = "check"]
    /\ UNCHANGED <<pc, running, thread>>
    /\ MonitorUnchanged

MonitorNext ==
    \/ StartMonitoring
    \/ StopMonitoring
    \/ \E timed_out \in BOOLEAN : JoinReturns(timed_out)
    \/ \E t \in 1..Len(threads) : LoopTest(t)
    \/ \E t \in 1..Len(threads) : Poll(t)
    \/ \E t \in 1..Len(threads) : Wake(t)

MonitorSpec == MonitorInit /\ [][MonitorNext]_vars

\* the threads that are in get_clockout_list
Polling == {t \in 1..Len(threads) : threads[t].at = "polling"}

\* C29: after any sequence of start_monitoring and stop_monitoring calls at
\* most one _monitor_loop thread is polling, and a loop whose stop was
\* requested does not go back to polling after a later start, also when the
\* join of five seconds timed out.
C29_OneMonitorLoop ==
    /\ [](Cardinality(Polling) <= 1)
    /\ [][\A t \in 1..Len(threads) :
             (threads[t].stopped /\ threads[t].at = "check")
                 => threads'[t].at # "polling"]_vars

---------------------------------------------------------------------------
(* RetrySpec: one call of ClockOutReader.get_clockout_list, with the calls *)
(* it makes of itself after a token refresh                                *)

\* the frames of get_clockout_list the interpreter allows before it raises
\* RecursionError
MaxDepth == 4

\* what one request may come to: data that passes _check_token_expiration,
\* data that does not, a body that is no JSON, a RequestException with
\* status 401 or 403, any other RequestException
RequestOutcomes == {"data", "expired", "no json", "auth error", "error"}

RetryInit ==
    /\ LayoutIdle /\ TokenIdle /\ WrapIdle /\ SuggestIdle /\ MainIdle /\ PathIdle
    /\ EngineIdle /\ AnnotIdle /\ LoopIdle /\ MonIdle
    /\ module = "image_get"
    /\ pc = "calling"
    /\ response = <<>> /\ filtered = <<>> /\ points = <<>>
    /\ trace = <<>>
    /\ auto_extract_credentials \in BOOLEAN
    /\ token_expired \in BOOLEAN
    /\ depth = 1
    /\ extractions = 0
    /\ result = None

RetryUnchanged ==
    UNCHANGED <<module, response, filtered, points, engineVars, layoutVars, tokenVars,
                wrapVars, suggestVars, mainVars, pathVars, annotVars, loopVars, monVars,
                auto_extract_credentials>>

\* whether the branch of this outcome goes on to _auto_extract_tokens:
\* lines 261, 288 and 300-301
TriesExtraction(outcome) ==
    CASE outcome = "expired" -> auto_extract_credentials
      [] outcome \in {"no json", "auth error"} -> auto_extract_credentials /\ ~token_expired
      [] OTHER -> FALSE

\* lines 245-306: one request and what follows it; extracted says whether
\* _auto_extract_tokens (lines 133-190) got new tokens
Request(outcome, extracted) ==
    /\ pc = "calling"
    /\ depth <= MaxDepth
    /\ trace' = Append(trace, outcome)
    /\ IF TriesExtraction(outcome)
       THEN /\ extractions' = extractions + 1
            /\ IF extracted
               THEN /\ token_expired' = FALSE
                    /\ depth' = depth + 1
                    /\ pc' = "calling"
                    /\ UNCHANGED result
               ELSE /\ token_expired' = (outcome = "expired" \/ token_expired)
                    /\ result' = None
                    /\ pc' = "returned"
                    /\ UNCHANGED depth
       ELSE /\ token_expired' = (outcome = "expired" \/ token_expired)
            /\ result' = IF outcome = "data" THEN Some("data") ELSE None
            /\ pc' = "returned"
            /\ UNCHANGED <<depth, extractions>>
    /\ RetryUnchanged

\* the call of itself that goes past the recursion limit: RecursionError is
\* none of the exceptions of lines 283 and 294, so it leaves every frame
RecursionLimit ==
    /\ pc = "calling"
    /\ depth > MaxDepth
    /\ pc' = "raised"
    /\ UNCHANGED <<traceVars, token_expired, depth, extractions, result>>
    /\ RetryUnchanged

RetryNext ==
    \/ \E outcome \in RequestOutcomes, extracted \in BOOLEAN : Request(outcome, extracted)
    \/ RecursionLimit

RetrySpec == RetryInit /\ [][RetryNext]_vars

\* C30: get_clockout_list comes to an end with a result or None after a
\* bounded number of refresh-and-retry attempts, also when every response
\* after each successful extraction still says the token has expired: the
\* call never ends in an exception for having retried too often.
C30_RetryBounded == pc # "raised"

====
